---------------------------- MODULE Spec2Model ----------------------------
(***************************************************************************)
(* A model of the swap router of robinhoodswaptestnet:                     *)
(*   contracts/UniswapV2Router02.sol   the router's entrypoints            *)
(*   contracts/UniswapV2Library.sol    the pricing library                 *)
(*                                     (src/unnamed/part_005)              *)
(* The pair, factory, token and wrapped-native contracts the router calls  *)
(* are not among the sources; they are modelled from the specification's   *)
(* description of the collaborators (section 6) and kept apart below.      *)
(*                                                                         *)
(* Amounts are naturals far below 2^256, so Solidity's checked arithmetic  *)
(* never overflows within the bounds explored here.                        *)
(***************************************************************************)
EXTENDS Integers, Sequences, FiniteSets, TLC

VARIABLES
    now,        \* block.timestamp
    pairs,      \* the factory's registry: the set of pair addresses created
    reserves,   \* pair address -> <<reserve0, reserve1>>
    bal,        \* token -> holder -> ERC20 balance
    eth,        \* holder -> native balance
    nops,       \* number of successful router transactions so far
    last,       \* the latest router call: its inputs, outcome and call trace
    lib,        \* the latest direct evaluation of a pure library function
    ui          \* the web application's swap flow and the allowance it reads

vars == <<now, pairs, reserves, bal, eth, nops, last, lib, ui>>

---------------------------------------------------------------------------
(* Bounds of the exploration *)

MaxTime == 1        \* block.timestamp and deadlines range over 0..MaxTime
MaxAmt == 2         \* amountIn, amountOutMin, desired amounts: 0..MaxAmt
MaxPathLen == 3     \* paths have 0..MaxPathLen tokens
MaxOps == 1         \* successful router transactions in one behaviour
MaxLibAmt == 5      \* arguments of the pure functions: 0..MaxLibAmt and SpecCases
InitTok == 4        \* the caller's balance of each plain token after seeding
InitEth == 3        \* the caller's native balance after seeding
SeedTok == 20       \* the seed script's token deposit
MaxSwaps == 2       \* swaps the web application hands to the wallet
MaxInFlight == 2    \* quote requests of the web application awaiting their response
SeedEth == 30       \* the seed script's native deposit
MaxRepeats == 2     \* times one swap is sent again after it settled

SpecCases == {100, 1000}    \* the amounts of the specification's worked examples

---------------------------------------------------------------------------
(* Addresses *)

ZERO == 0           \* address(0)
WETH == 2           \* the router's immutable WETH
Tokens == {1, 2, 3} \* token contracts; 1 < WETH < 3 in address order
Alice == 4          \* msg.sender of every call
Bob == 5            \* the recipient `to`
Router == 6         \* address(this)

Min(a, b) == IF a < b THEN a ELSE b
Max(a, b) == IF a < b THEN b ELSE a

---------------------------------------------------------------------------
(* UniswapV2Library (src/unnamed/part_005) *)

FEE_NUM == 997
FEE_DEN == 1000

\* a slip: identical tokens let through
sortTokensUnchecked(tokenA, tokenB) ==
    LET token0 == Min(tokenA, tokenB)
        token1 == Max(tokenA, tokenB)
    IN  IF token0 = ZERO THEN [err |-> "LIB: ZERO", token0 |-> ZERO, token1 |-> ZERO]
        ELSE [err |-> "", token0 |-> token0, token1 |-> token1]

sortTokens(tokenA, tokenB) ==
    IF tokenA = tokenB
    THEN [err |-> "LIB: IDENTICAL", token0 |-> ZERO, token1 |-> ZERO]
    ELSE LET token0 == IF tokenA < tokenB THEN tokenA ELSE tokenB
             token1 == IF tokenA < tokenB THEN tokenB ELSE tokenA
         IN  IF token0 = ZERO
             THEN [err |-> "LIB: ZERO", token0 |-> ZERO, token1 |-> ZERO]
             ELSE [err |-> "", token0 |-> token0, token1 |-> token1]

\* a slip: the two reserves exchanged in the ratio
quoteReservesExchanged(amountA, reserveA, reserveB) ==
    IF ~(amountA > 0) THEN [err |-> "LIB: INSUFFICIENT_AMOUNT", val |-> 0]
    ELSE IF ~(reserveA > 0 /\ reserveB > 0)
    THEN [err |-> "LIB: INSUFFICIENT_LIQUIDITY", val |-> 0]
    ELSE [err |-> "", val |-> (amountA * reserveA) \div reserveB]

\* a slip: the division rounded up
quoteRoundedUp(amountA, reserveA, reserveB) ==
    IF ~(amountA > 0) THEN [err |-> "LIB: INSUFFICIENT_AMOUNT", val |-> 0]
    ELSE IF ~(reserveA > 0 /\ reserveB > 0)
    THEN [err |-> "LIB: INSUFFICIENT_LIQUIDITY", val |-> 0]
    ELSE [err |-> "", val |-> ((amountA * reserveB) + reserveA - 1) \div reserveA]

quote(amountA, reserveA, reserveB) ==
    IF ~(amountA > 0) THEN [err |-> "LIB: INSUFFICIENT_AMOUNT", val |-> 0]
    ELSE IF ~(reserveA > 0 /\ reserveB > 0)
    THEN [err |-> "LIB: INSUFFICIENT_LIQUIDITY", val |-> 0]
    ELSE [err |-> "", val |-> (amountA * reserveB) \div reserveA]

\* the multiplication and division of getAmountOut, its requires passed
AmountOutMath(amountIn, reserveIn, reserveOut) ==
    LET amountInWithFee == amountIn * FEE_NUM
        numerator == amountInWithFee * reserveOut
        denominator == (reserveIn * FEE_DEN) + amountInWithFee
    IN  numerator \div denominator

\* a slip: the fee multipliers 997 and 1000 exchanged
getAmountOutFeeExchanged(amountIn, reserveIn, reserveOut) ==
    IF ~(amountIn > 0) THEN [err |-> "LIB: INSUFFICIENT_INPUT", val |-> 0]
    ELSE IF ~(reserveIn > 0 /\ reserveOut > 0)
    THEN [err |-> "LIB: INSUFFICIENT_LIQUIDITY", val |-> 0]
    ELSE [err |-> "",
          val |-> (amountIn * FEE_DEN * reserveOut)
                      \div ((reserveIn * FEE_NUM) + amountIn * FEE_DEN)]

\* a slip: reserveIn and reserveOut exchanged
getAmountOutReservesExchanged(amountIn, reserveIn, reserveOut) ==
    IF ~(amountIn > 0) THEN [err |-> "LIB: INSUFFICIENT_INPUT", val |-> 0]
    ELSE IF ~(reserveIn > 0 /\ reserveOut > 0)
    THEN [err |-> "LIB: INSUFFICIENT_LIQUIDITY", val |-> 0]
    ELSE [err |-> "", val |-> AmountOutMath(amountIn, reserveOut, reserveIn)]

\* a slip: the division rounded up
getAmountOutRoundedUp(amountIn, reserveIn, reserveOut) ==
    IF ~(amountIn > 0) THEN [err |-> "LIB: INSUFFICIENT_INPUT", val |-> 0]
    ELSE IF ~(reserveIn > 0 /\ reserveOut > 0)
    THEN [err |-> "LIB: INSUFFICIENT_LIQUIDITY", val |-> 0]
    ELSE LET d == (reserveIn * FEE_DEN) + amountIn * FEE_NUM
         IN  [err |-> "", val |-> (amountIn * FEE_NUM * reserveOut + d - 1) \div d]

\* a slip: the two requires in the other order
getAmountOutLiquidityFirst(amountIn, reserveIn, reserveOut) ==
    IF ~(reserveIn > 0 /\ reserveOut > 0)
    THEN [err |-> "LIB: INSUFFICIENT_LIQUIDITY", val |-> 0]
    ELSE IF ~(amountIn > 0) THEN [err |-> "LIB: INSUFFICIENT_INPUT", val |-> 0]
    ELSE [err |-> "", val |-> AmountOutMath(amountIn, reserveIn, reserveOut)]

\* a slip: what the pool keeps returned instead of what it releases
getAmountOutRemainder(amountIn, reserveIn, reserveOut) ==
    IF ~(amountIn > 0) THEN [err |-> "LIB: INSUFFICIENT_INPUT", val |-> 0]
    ELSE IF ~(reserveIn > 0 /\ reserveOut > 0)
    THEN [err |-> "LIB: INSUFFICIENT_LIQUIDITY", val |-> 0]
    ELSE [err |-> "",
          val |-> reserveOut - AmountOutMath(amountIn, reserveIn, reserveOut)]

\* a slip: the require on the reserves left out
getAmountOutLiquidityUnchecked(amountIn, reserveIn, reserveOut) ==
    IF ~(amountIn > 0) THEN [err |-> "LIB: INSUFFICIENT_INPUT", val |-> 0]
    ELSE [err |-> "", val |-> AmountOutMath(amountIn, reserveIn, reserveOut)]

\* a slip: a pool with an empty side quoted at 0 instead of refused
getAmountOutDryQuotesZero(amountIn, reserveIn, reserveOut) ==
    IF ~(amountIn > 0) THEN [err |-> "LIB: INSUFFICIENT_INPUT", val |-> 0]
    ELSE IF ~(reserveIn > 0 /\ reserveOut > 0) THEN [err |-> "", val |-> 0]
    ELSE [err |-> "", val |-> AmountOutMath(amountIn, reserveIn, reserveOut)]

getAmountOut(amountIn, reserveIn, reserveOut) ==
    IF ~(amountIn > 0) THEN [err |-> "LIB: INSUFFICIENT_INPUT", val |-> 0]
    ELSE IF ~(reserveIn > 0 /\ reserveOut > 0)
    THEN [err |-> "LIB: INSUFFICIENT_LIQUIDITY", val |-> 0]
    ELSE [err |-> "", val |-> AmountOutMath(amountIn, reserveIn, reserveOut)]

---------------------------------------------------------------------------
(* The chain state a transaction works on, and the context threaded through *)
(* its steps: the first revert message (err, "" while none), the working    *)
(* state, the external calls issued so far and the values to return.        *)

PairAddr(token0, token1) == 10 * token0 + token1
PairIds == {PairAddr(a, b) : <<a, b>> \in {x \in Tokens \X Tokens : x[1] < x[2]}}
PairToken0(pair) == pair \div 10
PairToken1(pair) == pair % 10

Holders == {Alice, Bob, Router} \cup PairIds
NativeHolders == {Alice, Bob, Router, WETH}

Cur == [pairs |-> pairs, reserves |-> reserves, bal |-> bal, eth |-> eth]

Ctx(st) ==
    [err |-> "", st |-> st, trace |-> <<>>, amounts |-> <<>>,
     amountA |-> 0, amountB |-> 0]

Revert(c, msg) == [c EXCEPT !.err = msg]

Entry(call, tgt, from, to, x, y) ==
    [call |-> call, tgt |-> tgt, from |-> from, to |-> to, x |-> x, y |-> y]

Issue(c, e) == [c EXCEPT !.trace = Append(@, e)]

---------------------------------------------------------------------------
(* Collaborators, modelled from the specification (sections 2, 4.1, 6):    *)
(* factory lookup/creation, asset transfer, wrap/unwrap, pair settlement   *)
(* and pair liquidity issuance.                                            *)

FactoryGetPair(st, tokenA, tokenB) ==
    IF tokenA # tokenB
       /\ PairAddr(Min(tokenA, tokenB), Max(tokenA, tokenB)) \in st.pairs
    THEN PairAddr(Min(tokenA, tokenB), Max(tokenA, tokenB))
    ELSE ZERO

FactoryCreatePair(c, tokenA, tokenB) ==
    IF c.err # "" THEN c
    ELSE LET c1 == Issue(c, Entry("createPair", ZERO, tokenA, tokenB, 0, 0))
             pair == PairAddr(Min(tokenA, tokenB), Max(tokenA, tokenB))
         IN  IF tokenA = tokenB THEN Revert(c1, "FACTORY: IDENTICAL")
             ELSE IF Min(tokenA, tokenB) = ZERO THEN Revert(c1, "FACTORY: ZERO")
             ELSE IF pair \in c1.st.pairs THEN Revert(c1, "FACTORY: PAIR_EXISTS")
             ELSE [c1 EXCEPT !.st.pairs = @ \cup {pair},
                             !.st.reserves[pair] = <<0, 0>>]

TokenMove(st, token, from, to, value) ==
    [st EXCEPT !.bal[token][from] = @ - value, !.bal[token][to] = @ + value]

\* transferFrom / transfer of an ERC20: false when the holder lacks the amount
TokenCanMove(st, token, from, value) == st.bal[token][from] >= value

WethDeposit(c, value) ==
    IF c.err # "" THEN c
    ELSE LET c1 == Issue(c, Entry("deposit", WETH, Router, Router, value, 0))
         IN  IF c1.st.eth[Router] < value THEN Revert(c1, "WETH: VALUE")
             ELSE [c1 EXCEPT !.st.eth[Router] = @ - value,
                             !.st.eth[WETH] = @ + value,
                             !.st.bal[WETH][Router] = @ + value]

WethWithdraw(c, value) ==
    IF c.err # "" THEN c
    ELSE LET c1 == Issue(c, Entry("withdraw", WETH, Router, Router, value, 0))
         IN  IF c1.st.bal[WETH][Router] < value THEN Revert(c1, "WETH: BALANCE")
             ELSE [c1 EXCEPT !.st.bal[WETH][Router] = @ - value,
                             !.st.eth[WETH] = @ - value,
                             !.st.eth[Router] = @ + value]

\* payable(to).transfer(value); sent to the router itself it runs the router's
\* receive(), which takes native asset from WETH only
NativeSend(c, to, value) ==
    IF c.err # "" THEN c
    ELSE LET c1 == Issue(c, Entry("send", to, Router, to, value, 0))
         IN  IF c1.st.eth[Router] < value THEN Revert(c1, "NATIVE: BALANCE")
             ELSE IF to = Router THEN Revert(c1, "ROUTER: ETH_ONLY")
             ELSE [c1 EXCEPT !.st.eth[Router] = @ - value,
                             !.st.eth[to] = @ + value]

PairSync(st, pair) ==
    [st EXCEPT !.reserves[pair] =
        <<st.bal[PairToken0(pair)][pair], st.bal[PairToken1(pair)][pair]>>]

\* pair.swap(amount0Out, amount1Out, to): release the amounts, then record
\* the pair's balances as its reserves
PairSwap(c, pair, amount0Out, amount1Out, to) ==
    IF c.err # "" THEN c
    ELSE LET c1 == Issue(c, Entry("swap", pair, pair, to, amount0Out, amount1Out))
             t0 == PairToken0(pair)
             t1 == PairToken1(pair)
         IN  IF ~TokenCanMove(c1.st, t0, pair, amount0Out)
                \/ ~TokenCanMove(c1.st, t1, pair, amount1Out)
             THEN Revert(c1, "PAIR: INSUFFICIENT_LIQUIDITY")
             ELSE [c1 EXCEPT !.st =
                     PairSync(TokenMove(TokenMove(c1.st, t0, pair, to, amount0Out),
                                        t1, pair, to, amount1Out), pair)]

\* pair.mint(to): the deposits become reserves; the credit formula is the
\* pair's own business and is not modelled
PairMint(c, pair, to) ==
    IF c.err # "" THEN c
    ELSE LET c1 == Issue(c, Entry("mint", pair, Router, to, 0, 0))
         IN  [c1 EXCEPT !.st = PairSync(c1.st, pair)]

---------------------------------------------------------------------------
(* UniswapV2Library, the functions that read the chain *)

\* a slip: the pair's address computed from the tokens, registered or not
pairForComputed(st, tokenA, tokenB) ==
    [err |-> "", pair |-> PairAddr(Min(tokenA, tokenB), Max(tokenA, tokenB))]

pairFor(st, tokenA, tokenB) ==
    LET pair == FactoryGetPair(st, tokenA, tokenB)
    IN  IF pair = ZERO THEN [err |-> "LIB: PAIR_NOT_FOUND", pair |-> ZERO]
        ELSE [err |-> "", pair |-> pair]

\* a slip: the reserves returned in the pair's order whatever the arguments' order
getReservesUnoriented(st, tokenA, tokenB) ==
    LET sorted == sortTokens(tokenA, tokenB)
        found == pairFor(st, tokenA, tokenB)
    IN  IF sorted.err # "" THEN [err |-> sorted.err, reserveA |-> 0, reserveB |-> 0]
        ELSE IF found.err # "" THEN [err |-> found.err, reserveA |-> 0, reserveB |-> 0]
        ELSE [err |-> "", reserveA |-> st.reserves[found.pair][1],
              reserveB |-> st.reserves[found.pair][2]]

getReserves(st, tokenA, tokenB) ==
    LET sorted == sortTokens(tokenA, tokenB)
        found == pairFor(st, tokenA, tokenB)
    IN  IF sorted.err # "" THEN [err |-> sorted.err, reserveA |-> 0, reserveB |-> 0]
        ELSE IF found.err # "" THEN [err |-> found.err, reserveA |-> 0, reserveB |-> 0]
        ELSE LET reserve0 == st.reserves[found.pair][1]
                 reserve1 == st.reserves[found.pair][2]
             IN  IF tokenA = sorted.token0
                 THEN [err |-> "", reserveA |-> reserve0, reserveB |-> reserve1]
                 ELSE [err |-> "", reserveA |-> reserve1, reserveB |-> reserve0]

\* a slip: each hop quoted against reserves that the hops before it have
\* already moved
RECURSIVE getAmountsOutLoopReacting(_, _, _, _)
getAmountsOutLoopReacting(st, path, i, amounts) ==
    IF ~(i < Len(path)) THEN [err |-> "", amounts |-> amounts]
    ELSE LET r == getReserves(st, path[i], path[i + 1])
             out == getAmountOut(amounts[i], r.reserveA, r.reserveB)
             pair == PairAddr(Min(path[i], path[i + 1]), Max(path[i], path[i + 1]))
             moved == IF path[i] < path[i + 1]
                      THEN <<r.reserveA + amounts[i], r.reserveB - out.val>>
                      ELSE <<r.reserveB - out.val, r.reserveA + amounts[i]>>
         IN  IF r.err # "" THEN [err |-> r.err, amounts |-> <<>>]
             ELSE IF out.err # "" THEN [err |-> out.err, amounts |-> <<>>]
             ELSE getAmountsOutLoopReacting([st EXCEPT !.reserves[pair] = moved],
                                            path, i + 1, Append(amounts, out.val))

\* the loop of getAmountsOut from hop i (1-based), amounts[1..i] being set
RECURSIVE getAmountsOutLoop(_, _, _, _)
getAmountsOutLoop(st, path, i, amounts) ==
    IF ~(i < Len(path)) THEN [err |-> "", amounts |-> amounts]
    ELSE LET r == getReserves(st, path[i], path[i + 1])
             out == getAmountOut(amounts[i], r.reserveA, r.reserveB)
         IN  IF r.err # "" THEN [err |-> r.err, amounts |-> <<>>]
             ELSE IF out.err # "" THEN [err |-> out.err, amounts |-> <<>>]
             ELSE getAmountsOutLoop(st, path, i + 1, Append(amounts, out.val))

\* a slip: the path's length not checked
getAmountsOutAnyPath(st, amountIn, path) ==
    getAmountsOutLoop(st, path, 1, <<amountIn>>)

getAmountsOut(st, amountIn, path) ==
    IF ~(Len(path) >= 2) THEN [err |-> "LIB: PATH", amounts |-> <<>>]
    ELSE getAmountsOutLoop(st, path, 1, <<amountIn>>)

---------------------------------------------------------------------------
(* UniswapV2Router02 (src/contracts/UniswapV2Router02.sol) *)

\* require(IERC20(token).transferFrom(from, to, value), msg) and
\* require(IWETH(WETH).transfer(to, value), msg)
RequireTransfer(c, call, token, from, to, value, msg) ==
    IF c.err # "" THEN c
    ELSE LET c1 == Issue(c, Entry(call, token, from, to, value, 0))
         IN  IF TokenCanMove(c1.st, token, from, value)
             THEN [c1 EXCEPT !.st = TokenMove(c1.st, token, from, to, value)]
             ELSE Revert(c1, msg)

\* a slip: a deadline equal to the block's time refused
NotExpiredStrict(time, deadline) == time < deadline

\* require(block.timestamp <= deadline, "ROUTER: EXPIRED")
NotExpired(time, deadline) == time <= deadline

\* a slip: the minimum never compared
SufficientOutputUnchecked(amounts, amountOutMin) == TRUE

\* a slip: an output equal to the minimum refused
SufficientOutputStrict(amounts, amountOutMin) == amounts[Len(amounts)] > amountOutMin

\* require(amounts[amounts.length - 1] >= amountOutMin, "ROUTER: INSUFFICIENT_OUTPUT")
SufficientOutput(amounts, amountOutMin) == amounts[Len(amounts)] >= amountOutMin

\* a slip: the path's first token not compared with WETH
PathFromNativeUnchecked(path) == Len(path) >= 2

\* require(path.length >= 2 && path[0] == WETH, "ROUTER: PATH")
PathFromNative(path) == Len(path) >= 2 /\ path[1] = WETH

\* require(path.length >= 2 && path[path.length - 1] == WETH, "ROUTER: PATH")
PathToNative(path) == Len(path) >= 2 /\ path[Len(path)] = WETH

\* a slip: the pair created without asking the factory for it first
_ensurePairUnasked(c, tokenA, tokenB) ==
    IF c.err # "" THEN c
    ELSE FactoryCreatePair(c, tokenA, tokenB)

_ensurePair(c, tokenA, tokenB) ==
    IF c.err # "" THEN c
    ELSE IF FactoryGetPair(c.st, tokenA, tokenB) = ZERO
    THEN FactoryCreatePair(c, tokenA, tokenB)
    ELSE c

\* a slip: the bootstrap branch left out
OptimalAmountsRatioOnly(reserveA, reserveB, amountADesired, amountBDesired) ==
    LET amountBOptimal == quote(amountADesired, reserveA, reserveB)
        amountAOptimal == quote(amountBDesired, reserveB, reserveA)
    IN  IF amountBOptimal.err # ""
        THEN [err |-> amountBOptimal.err, amountA |-> 0, amountB |-> 0]
        ELSE IF amountBOptimal.val <= amountBDesired
        THEN [err |-> "", amountA |-> amountADesired, amountB |-> amountBOptimal.val]
        ELSE IF amountAOptimal.err # ""
        THEN [err |-> amountAOptimal.err, amountA |-> 0, amountB |-> 0]
        ELSE [err |-> "", amountA |-> amountAOptimal.val, amountB |-> amountBDesired]

\* a slip: the optimal amount of B taken even above the desired one
OptimalAmountsNoFallback(reserveA, reserveB, amountADesired, amountBDesired) ==
    IF reserveA = 0 /\ reserveB = 0
    THEN [err |-> "", amountA |-> amountADesired, amountB |-> amountBDesired]
    ELSE LET amountBOptimal == quote(amountADesired, reserveA, reserveB)
         IN  IF amountBOptimal.err # ""
             THEN [err |-> amountBOptimal.err, amountA |-> 0, amountB |-> 0]
             ELSE [err |-> "", amountA |-> amountADesired,
                   amountB |-> amountBOptimal.val]

\* a slip: a pool with one side empty taken for an empty one
OptimalAmountsEitherZero(reserveA, reserveB, amountADesired, amountBDesired) ==
    IF reserveA = 0 \/ reserveB = 0
    THEN [err |-> "", amountA |-> amountADesired, amountB |-> amountBDesired]
    ELSE LET amountBOptimal == quote(amountADesired, reserveA, reserveB)
             amountAOptimal == quote(amountBDesired, reserveB, reserveA)
         IN  IF amountBOptimal.val <= amountBDesired
             THEN [err |-> "", amountA |-> amountADesired,
                   amountB |-> amountBOptimal.val]
             ELSE [err |-> "", amountA |-> amountAOptimal.val,
                   amountB |-> amountBDesired]

\* a slip: the second quote taken with the reserves in the order of the first
OptimalAmountsSameQuote(reserveA, reserveB, amountADesired, amountBDesired) ==
    IF reserveA = 0 /\ reserveB = 0
    THEN [err |-> "", amountA |-> amountADesired, amountB |-> amountBDesired]
    ELSE LET amountBOptimal == quote(amountADesired, reserveA, reserveB)
             amountAOptimal == quote(amountBDesired, reserveA, reserveB)
         IN  IF amountBOptimal.err # ""
             THEN [err |-> amountBOptimal.err, amountA |-> 0, amountB |-> 0]
             ELSE IF amountBOptimal.val <= amountBDesired
             THEN [err |-> "", amountA |-> amountADesired,
                   amountB |-> amountBOptimal.val]
             ELSE IF amountAOptimal.err # ""
             THEN [err |-> amountAOptimal.err, amountA |-> 0, amountB |-> 0]
             ELSE [err |-> "", amountA |-> amountAOptimal.val,
                   amountB |-> amountBDesired]

\* the amounts addLiquidity and addLiquidityETH settle on
OptimalAmounts(reserveA, reserveB, amountADesired, amountBDesired) ==
    IF reserveA = 0 /\ reserveB = 0
    THEN [err |-> "", amountA |-> amountADesired, amountB |-> amountBDesired]
    ELSE LET amountBOptimal == quote(amountADesired, reserveA, reserveB)
             amountAOptimal == quote(amountBDesired, reserveB, reserveA)
         IN  IF amountBOptimal.err # ""
             THEN [err |-> amountBOptimal.err, amountA |-> 0, amountB |-> 0]
             ELSE IF amountBOptimal.val <= amountBDesired
             THEN [err |-> "", amountA |-> amountADesired,
                   amountB |-> amountBOptimal.val]
             ELSE IF amountAOptimal.err # ""
             THEN [err |-> amountAOptimal.err, amountA |-> 0, amountB |-> 0]
             ELSE [err |-> "", amountA |-> amountAOptimal.val,
                   amountB |-> amountBDesired]

\* a slip: the pair asked to mint before the deposits are sent
addLiquidityMintFirst(st, sender, tokenA, tokenB, amountADesired, amountBDesired, to) ==
    LET c1 == _ensurePair(Ctx(st), tokenA, tokenB)
        r == getReserves(c1.st, tokenA, tokenB)
        opt == OptimalAmounts(r.reserveA, r.reserveB, amountADesired, amountBDesired)
        pair == FactoryGetPair(c1.st, tokenA, tokenB)
        c2 == PairMint(c1, pair, to)
        c3 == RequireTransfer(c2, "transferFrom", tokenA, sender, pair,
                              opt.amountA, "ROUTER: TRANSFER_A")
        c4 == RequireTransfer(c3, "transferFrom", tokenB, sender, pair,
                              opt.amountB, "ROUTER: TRANSFER_B")
    IN  IF c1.err # "" THEN c1
        ELSE IF r.err # "" THEN Revert(c1, r.err)
        ELSE IF opt.err # "" THEN Revert(c1, opt.err)
        ELSE [c4 EXCEPT !.amountA = opt.amountA, !.amountB = opt.amountB]

addLiquidity(st, sender, tokenA, tokenB, amountADesired, amountBDesired, to) ==
    LET c1 == _ensurePair(Ctx(st), tokenA, tokenB)
        r == getReserves(c1.st, tokenA, tokenB)
        opt == OptimalAmounts(r.reserveA, r.reserveB, amountADesired, amountBDesired)
        pair == FactoryGetPair(c1.st, tokenA, tokenB)
        c2 == RequireTransfer(c1, "transferFrom", tokenA, sender, pair,
                              opt.amountA, "ROUTER: TRANSFER_A")
        c3 == RequireTransfer(c2, "transferFrom", tokenB, sender, pair,
                              opt.amountB, "ROUTER: TRANSFER_B")
        c4 == PairMint(c3, pair, to)
    IN  IF c1.err # "" THEN c1
        ELSE IF r.err # "" THEN Revert(c1, r.err)
        ELSE IF opt.err # "" THEN Revert(c1, opt.err)
        ELSE [c4 EXCEPT !.amountA = opt.amountA, !.amountB = opt.amountB]

\* a slip: the native asset not deposited left with the router
RefundExcessKept(c, sender, value, amountETH) == c

\* if (msg.value > amountETH) payable(msg.sender).transfer(msg.value - amountETH)
RefundExcess(c, sender, value, amountETH) ==
    IF value > amountETH THEN NativeSend(c, sender, value - amountETH)
    ELSE c

\* st already holds msg.value on the router's account
addLiquidityETH(st, sender, token, amountTokenDesired, to, value) ==
    LET c1 == _ensurePair(Ctx(st), token, WETH)
        r == getReserves(c1.st, token, WETH)
        opt == OptimalAmounts(r.reserveA, r.reserveB, amountTokenDesired, value)
        pair == FactoryGetPair(c1.st, token, WETH)
        c2 == RequireTransfer(c1, "transferFrom", token, sender, pair,
                              opt.amountA, "ROUTER: TRANSFER_TOKEN")
        c3 == WethDeposit(c2, opt.amountB)
        c4 == RequireTransfer(c3, "transfer", WETH, Router, pair,
                              opt.amountB, "ROUTER: WETH_TRANSFER")
        c5 == PairMint(c4, pair, to)
        c6 == RefundExcess(c5, sender, value, opt.amountB)
    IN  IF c1.err # "" THEN c1
        ELSE IF r.err # "" THEN Revert(c1, r.err)
        ELSE IF opt.err # "" THEN Revert(c1, opt.err)
        ELSE [c6 EXCEPT !.amountA = opt.amountA, !.amountB = opt.amountB]

\* a slip: every hop paying the final destination
HopToFinal(st, path, _to, i) == [err |-> "", pair |-> _to]

\* address to = i < path.length - 2 ? pairFor(factory, output, path[i + 2]) : _to
\* (i 1-based here)
HopTo(st, path, _to, i) ==
    IF i < Len(path) - 1 THEN pairFor(st, path[i + 1], path[i + 2])
    ELSE [err |-> "", pair |-> _to]

\* a slip: the amount asked on the input token's side
SwapSidesExchanged(input, token0, amountOut) ==
    IF input = token0 THEN <<amountOut, 0>> ELSE <<0, amountOut>>

\* (uint amount0Out, uint amount1Out) =
\*     input == token0 ? (uint(0), amountOut) : (amountOut, uint(0));
SwapSides(input, token0, amountOut) ==
    IF input = token0 THEN <<0, amountOut>> ELSE <<amountOut, 0>>

\* a slip: each pair told to release the amount it was sent
RECURSIVE _swapLoopInputAmount(_, _, _, _, _)
_swapLoopInputAmount(c, amounts, path, _to, i) ==
    IF c.err # "" \/ ~(i < Len(path)) THEN c
    ELSE LET input == path[i]
             output == path[i + 1]
             sorted == sortTokens(input, output)
             amountOut == amounts[i]
             amount0Out == SwapSides(input, sorted.token0, amountOut)[1]
             amount1Out == SwapSides(input, sorted.token0, amountOut)[2]
             to == HopTo(c.st, path, _to, i)
             pair == pairFor(c.st, input, output)
         IN  IF sorted.err # "" THEN Revert(c, sorted.err)
             ELSE IF to.err # "" THEN Revert(c, to.err)
             ELSE IF pair.err # "" THEN Revert(c, pair.err)
             ELSE _swapLoopInputAmount(PairSwap(c, pair.pair, amount0Out, amount1Out, to.pair),
                                       amounts, path, _to, i + 1)

\* the loop of _swap from hop i (1-based)
RECURSIVE _swapLoop(_, _, _, _, _)
_swapLoop(c, amounts, path, _to, i) ==
    IF c.err # "" \/ ~(i < Len(path)) THEN c
    ELSE LET input == path[i]
             output == path[i + 1]
             sorted == sortTokens(input, output)
             amountOut == amounts[i + 1]
             amount0Out == SwapSides(input, sorted.token0, amountOut)[1]
             amount1Out == SwapSides(input, sorted.token0, amountOut)[2]
             to == HopTo(c.st, path, _to, i)
             pair == pairFor(c.st, input, output)
         IN  IF sorted.err # "" THEN Revert(c, sorted.err)
             ELSE IF to.err # "" THEN Revert(c, to.err)
             ELSE IF pair.err # "" THEN Revert(c, pair.err)
             ELSE _swapLoop(PairSwap(c, pair.pair, amount0Out, amount1Out, to.pair),
                            amounts, path, _to, i + 1)

_swap(c, amounts, path, _to) == _swapLoop(c, amounts, path, _to, 1)

\* a slip: the guaranteed minimum reported in the place of the last amount
swapExactTokensForTokensReportsMinimum(st, sender, amountIn, amountOutMin, path, to, deadline, time) ==
    LET c0 == Ctx(st)
        c1 == _ensurePair(c0, path[1], path[2])
        q == getAmountsOut(c1.st, amountIn, path)
        pair == pairFor(c1.st, path[1], path[2])
        c2 == RequireTransfer(c1, "transferFrom", path[1], sender, pair.pair,
                              q.amounts[1], "ROUTER: TRANSFER_FROM")
        c3 == _swap(c2, q.amounts, path, to)
    IN  IF ~NotExpired(time, deadline) THEN Revert(c0, "ROUTER: EXPIRED")
        ELSE IF ~(Len(path) >= 2) THEN Revert(c0, "ROUTER: PATH")
        ELSE IF c1.err # "" THEN c1
        ELSE IF q.err # "" THEN Revert(c1, q.err)
        ELSE IF ~SufficientOutput(q.amounts, amountOutMin)
        THEN Revert(c1, "ROUTER: INSUFFICIENT_OUTPUT")
        ELSE IF pair.err # "" THEN Revert(c1, pair.err)
        ELSE [c3 EXCEPT !.amounts = [q.amounts EXCEPT ![Len(q.amounts)] = amountOutMin]]

\* a slip: the hops settled before the caller's input is collected
swapExactTokensForTokensSwapFirst(st, sender, amountIn, amountOutMin, path, to, deadline, time) ==
    LET c0 == Ctx(st)
        c1 == _ensurePair(c0, path[1], path[2])
        q == getAmountsOut(c1.st, amountIn, path)
        pair == pairFor(c1.st, path[1], path[2])
        c2 == _swap(c1, q.amounts, path, to)
        c3 == RequireTransfer(c2, "transferFrom", path[1], sender, pair.pair,
                              q.amounts[1], "ROUTER: TRANSFER_FROM")
    IN  IF ~NotExpired(time, deadline) THEN Revert(c0, "ROUTER: EXPIRED")
        ELSE IF ~(Len(path) >= 2) THEN Revert(c0, "ROUTER: PATH")
        ELSE IF c1.err # "" THEN c1
        ELSE IF q.err # "" THEN Revert(c1, q.err)
        ELSE IF ~SufficientOutput(q.amounts, amountOutMin)
        THEN Revert(c1, "ROUTER: INSUFFICIENT_OUTPUT")
        ELSE IF pair.err # "" THEN Revert(c1, pair.err)
        ELSE [c3 EXCEPT !.amounts = q.amounts]

swapExactTokensForTokens(st, sender, amountIn, amountOutMin, path, to, deadline, time) ==
    LET c0 == Ctx(st)
        c1 == _ensurePair(c0, path[1], path[2])
        q == getAmountsOut(c1.st, amountIn, path)
        pair == pairFor(c1.st, path[1], path[2])
        c2 == RequireTransfer(c1, "transferFrom", path[1], sender, pair.pair,
                              q.amounts[1], "ROUTER: TRANSFER_FROM")
        c3 == _swap(c2, q.amounts, path, to)
    IN  IF ~NotExpired(time, deadline) THEN Revert(c0, "ROUTER: EXPIRED")
        ELSE IF ~(Len(path) >= 2) THEN Revert(c0, "ROUTER: PATH")
        ELSE IF c1.err # "" THEN c1
        ELSE IF q.err # "" THEN Revert(c1, q.err)
        ELSE IF ~SufficientOutput(q.amounts, amountOutMin)
        THEN Revert(c1, "ROUTER: INSUFFICIENT_OUTPUT")
        ELSE IF pair.err # "" THEN Revert(c1, pair.err)
        ELSE [c3 EXCEPT !.amounts = q.amounts]

\* st already holds msg.value on the router's account
swapExactETHForTokens(st, sender, value, amountOutMin, path, to, deadline, time) ==
    LET c0 == Ctx(st)
        c1 == _ensurePair(c0, path[1], path[2])
        q == getAmountsOut(c1.st, value, path)
        c2 == WethDeposit(c1, q.amounts[1])
        pair == pairFor(c2.st, path[1], path[2])
        c3 == RequireTransfer(c2, "transfer", WETH, Router, pair.pair,
                              q.amounts[1], "ROUTER: WETH_TRANSFER")
        c4 == _swap(c3, q.amounts, path, to)
    IN  IF ~NotExpired(time, deadline) THEN Revert(c0, "ROUTER: EXPIRED")
        ELSE IF ~PathFromNative(path) THEN Revert(c0, "ROUTER: PATH")
        ELSE IF c1.err # "" THEN c1
        ELSE IF q.err # "" THEN Revert(c1, q.err)
        ELSE IF ~SufficientOutput(q.amounts, amountOutMin)
        THEN Revert(c1, "ROUTER: INSUFFICIENT_OUTPUT")
        ELSE IF c2.err # "" THEN c2
        ELSE IF pair.err # "" THEN Revert(c2, pair.err)
        ELSE [c4 EXCEPT !.amounts = q.amounts]

\* a slip: the last hop's WETH left with the router, neither unwrapped nor
\* forwarded
PayOutNativeWrapped(c, amounts, to) == c

\* a slip: the native amount unwrapped and never forwarded
PayOutNativeKept(c, amounts, to) == WethWithdraw(c, amounts[Len(amounts)])

\* uint amountOut = amounts[amounts.length - 1];
\* IWETH(WETH).withdraw(amountOut); payable(to).transfer(amountOut);
PayOutNative(c, amounts, to) ==
    LET amountOut == amounts[Len(amounts)]
    IN  NativeSend(WethWithdraw(c, amountOut), to, amountOut)

swapExactTokensForETH(st, sender, amountIn, amountOutMin, path, to, deadline, time) ==
    LET c0 == Ctx(st)
        c1 == _ensurePair(c0, path[1], path[2])
        q == getAmountsOut(c1.st, amountIn, path)
        pair == pairFor(c1.st, path[1], path[2])
        c2 == RequireTransfer(c1, "transferFrom", path[1], sender, pair.pair,
                              q.amounts[1], "ROUTER: TRANSFER_FROM")
        c3 == _swap(c2, q.amounts, path, Router)
        c5 == PayOutNative(c3, q.amounts, to)
    IN  IF ~NotExpired(time, deadline) THEN Revert(c0, "ROUTER: EXPIRED")
        ELSE IF ~PathToNative(path) THEN Revert(c0, "ROUTER: PATH")
        ELSE IF c1.err # "" THEN c1
        ELSE IF q.err # "" THEN Revert(c1, q.err)
        ELSE IF ~SufficientOutput(q.amounts, amountOutMin)
        THEN Revert(c1, "ROUTER: INSUFFICIENT_OUTPUT")
        ELSE IF pair.err # "" THEN Revert(c1, pair.err)
        ELSE [c5 EXCEPT !.amounts = q.amounts]

\* a slip: the effects of a failed transaction kept
CommitPartial(pre, c) == c.st

\* A transaction that reverts leaves the chain as it was; one that returns
\* commits its working state.
Commit(pre, c) == IF c.err = "" THEN c.st ELSE pre

---------------------------------------------------------------------------
(* The initial state: the contracts deployed and the pools seeded by the    *)
(* scripts.  scripts/deployTokenAndSeed.ts mints the test token to the      *)
(* deployer and calls addLiquidityETH once; scripts/seedExternalLps.ts,     *)
(* when it is run as well, calls addLiquidityETH for each further token.    *)

SeedToken == 1
ExternalToken == 3

\* the deployer holds what the scripts will deposit for the tokens they seed
Genesis(seeded) ==
    [pairs |-> {},
     reserves |-> [p \in PairIds |-> <<0, 0>>],
     bal |-> [t \in Tokens |-> [h \in Holders |->
                IF h = Alice /\ t # WETH
                THEN (IF t \in seeded THEN InitTok + SeedTok ELSE InitTok)
                ELSE 0]],
     eth |-> [h \in NativeHolders |->
                IF h = Alice THEN InitEth + SeedEth * Cardinality(seeded) ELSE 0]]

\* msg.value reaches the router's account as a payable call starts
PayIn(st, sender, value) ==
    [st EXCEPT !.eth[sender] = @ - value, !.eth[Router] = @ + value]

\* router.addLiquidityETH(token, tokenAmount, deployer, {value: ethAmount})
SeedPool(st, token) ==
    Commit(st, addLiquidityETH(PayIn(st, Alice, SeedEth), Alice, token, SeedTok,
                               Alice, SeedEth))

Seeded == SeedPool(Genesis({SeedToken}), SeedToken)

SeededExternal ==
    SeedPool(SeedPool(Genesis({SeedToken, ExternalToken}), SeedToken), ExternalToken)

Deployments == {Seeded, SeededExternal}

\* no execution worked out yet
NoCtx ==
    [err |-> "", st |-> <<>>, trace |-> <<>>, amounts |-> <<>>,
     amountA |-> 0, amountB |-> 0]

NoCall ==
    [op |-> "none", path |-> <<>>, amountIn |-> 0, amountOutMin |-> 0,
     to |-> ZERO, deadline |-> 0, value |-> 0, tokenA |-> ZERO, tokenB |-> ZERO,
     amountADesired |-> 0, amountBDesired |-> 0, time |-> 0,
     err |-> "", amounts |-> <<>>, amountA |-> 0, amountB |-> 0,
     trace |-> <<>>, pre |-> Seeded, phase |-> "none",
     quoted |-> NoCtx, outcome |-> NoCtx]

NoLib == [fn |-> "none", a |-> 0, b |-> 0, c |-> 0, err |-> "", val |-> 0]

\* the web application with no swap under way
NoUi ==
    [pc |-> "idle", kind |-> "native", amountIn |-> 0, allowance |-> 0,
     seen |-> 0, approve |-> "none", approveAmount |-> 0, revoked |-> FALSE,
     atSubmit |-> 0, txStatus |-> ""]

Init ==
    /\ now = 0
    /\ \E st \in Deployments :
          /\ pairs = st.pairs
          /\ reserves = st.reserves
          /\ bal = st.bal
          /\ eth = st.eth
    /\ nops = 0
    /\ last = NoCall
    /\ lib = NoLib
    /\ ui = NoUi

---------------------------------------------------------------------------
(* Inputs *)

Amounts == 0 .. MaxAmt
Deadlines == 0 .. MaxTime
Paths == UNION {[1 .. n -> Tokens] : n \in 0 .. MaxPathLen}
Recipients == {Bob}
AnyRecipients == {Alice, Bob, Router}
LibAmounts == (0 .. MaxLibAmt) \cup SpecCases

---------------------------------------------------------------------------
(* Actions: one per external entrypoint, a transaction each *)

\* the chain after the transaction, and its record
Finish(call, c) ==
    LET post == Commit(Cur, c)
    IN  /\ pairs' = post.pairs
        /\ reserves' = post.reserves
        /\ bal' = post.bal
        /\ eth' = post.eth
        /\ nops' = IF c.err = "" THEN nops + 1 ELSE nops
        /\ last' = [call EXCEPT !.time = now, !.err = c.err,
                                !.amounts = c.amounts, !.amountA = c.amountA,
                                !.amountB = c.amountB, !.trace = c.trace,
                                !.pre = Cur,
                                !.phase = IF c.err = "" THEN "Settled" ELSE "Failed"]
        /\ UNCHANGED <<now, lib, ui>>

\* no transaction's result is waiting for its caller
Idle == last.op = "none"

Tick ==
    /\ Idle
    /\ now < MaxTime
    /\ now' = now + 1
    /\ UNCHANGED <<pairs, reserves, bal, eth, nops, last, lib, ui>>

CallGetAmountsOut ==
    /\ Idle
    /\ nops < MaxOps
    /\ \E amountIn \in Amounts, path \in Paths :
          LET q == getAmountsOut(Cur, amountIn, path)
          IN  /\ last' = [NoCall EXCEPT !.op = "getAmountsOut",
                                        !.amountIn = amountIn, !.path = path,
                                        !.time = now, !.err = q.err,
                                        !.amounts = q.amounts, !.pre = Cur,
                                        !.phase = IF q.err = "" THEN "Settled"
                                                  ELSE "Failed"]
              /\ UNCHANGED <<now, pairs, reserves, bal, eth, nops, lib, ui>>

CallSwapExactTokensForTokensTo(recipients) ==
    /\ Idle
    /\ nops < MaxOps
    /\ \E amountIn \in Amounts, amountOutMin \in Amounts, path \in Paths,
          to \in recipients, deadline \in Deadlines :
          Finish([NoCall EXCEPT !.op = "swapExactTokensForTokens",
                                !.amountIn = amountIn,
                                !.amountOutMin = amountOutMin, !.path = path,
                                !.to = to, !.deadline = deadline],
                 swapExactTokensForTokens(Cur, Alice, amountIn, amountOutMin,
                                          path, to, deadline, now))

CallSwapExactTokensForTokens == CallSwapExactTokensForTokensTo(Recipients)

CallSwapExactETHForTokensTo(recipients) ==
    /\ Idle
    /\ nops < MaxOps
    /\ \E value \in Amounts, amountOutMin \in Amounts, path \in Paths,
          to \in recipients, deadline \in Deadlines :
          /\ value <= eth[Alice]
          /\ Finish([NoCall EXCEPT !.op = "swapExactETHForTokens",
                                   !.amountIn = value, !.value = value,
                                   !.amountOutMin = amountOutMin, !.path = path,
                                   !.to = to, !.deadline = deadline],
                    swapExactETHForTokens(PayIn(Cur, Alice, value), Alice, value,
                                          amountOutMin, path, to, deadline, now))

CallSwapExactETHForTokens == CallSwapExactETHForTokensTo(Recipients)

CallSwapExactTokensForETHTo(recipients) ==
    /\ Idle
    /\ nops < MaxOps
    /\ \E amountIn \in Amounts, amountOutMin \in Amounts, path \in Paths,
          to \in recipients, deadline \in Deadlines :
          Finish([NoCall EXCEPT !.op = "swapExactTokensForETH",
                                !.amountIn = amountIn,
                                !.amountOutMin = amountOutMin, !.path = path,
                                !.to = to, !.deadline = deadline],
                 swapExactTokensForETH(Cur, Alice, amountIn, amountOutMin,
                                       path, to, deadline, now))

CallSwapExactTokensForETH == CallSwapExactTokensForETHTo(Recipients)

CallAddLiquidityTo(recipients) ==
    /\ Idle
    /\ nops < MaxOps
    /\ \E tokenA \in Tokens, tokenB \in Tokens, amountADesired \in Amounts,
          amountBDesired \in Amounts, to \in recipients :
          Finish([NoCall EXCEPT !.op = "addLiquidity",
                                !.tokenA = tokenA, !.tokenB = tokenB,
                                !.amountADesired = amountADesired,
                                !.amountBDesired = amountBDesired, !.to = to],
                 addLiquidity(Cur, Alice, tokenA, tokenB, amountADesired,
                              amountBDesired, to))

CallAddLiquidity == CallAddLiquidityTo(Recipients)

CallAddLiquidityETHTo(recipients) ==
    /\ Idle
    /\ nops < MaxOps
    /\ \E token \in Tokens, amountTokenDesired \in Amounts, value \in Amounts,
          to \in recipients :
          /\ value <= eth[Alice]
          /\ Finish([NoCall EXCEPT !.op = "addLiquidityETH",
                                   !.tokenA = token, !.tokenB = WETH,
                                   !.amountADesired = amountTokenDesired,
                                   !.amountBDesired = value, !.value = value,
                                   !.to = to],
                    addLiquidityETH(PayIn(Cur, Alice, value), Alice, token,
                                    amountTokenDesired, to, value))

CallAddLiquidityETH == CallAddLiquidityETHTo(Recipients)

\* the caller consumes the result: a request is never persisted
Return ==
    /\ last.phase \in {"Settled", "Failed"}
    /\ last' = NoCall
    /\ UNCHANGED <<now, pairs, reserves, bal, eth, nops, lib, ui>>

Next ==
    \/ Tick
    \/ Return
    \/ CallGetAmountsOut
    \/ CallSwapExactTokensForTokens
    \/ CallSwapExactETHForTokens
    \/ CallSwapExactTokensForETH
    \/ CallAddLiquidity
    \/ CallAddLiquidityETH

Spec == Init /\ [][Next]_vars

---------------------------------------------------------------------------
(* Direct evaluation of the pure library functions on arbitrary arguments *)

EvalGetAmountOut ==
    \E amountIn \in LibAmounts, reserveIn \in LibAmounts, reserveOut \in LibAmounts :
        LET r == getAmountOut(amountIn, reserveIn, reserveOut)
        IN  /\ lib' = [fn |-> "getAmountOut", a |-> amountIn, b |-> reserveIn,
                       c |-> reserveOut, err |-> r.err, val |-> r.val]
            /\ UNCHANGED <<now, pairs, reserves, bal, eth, nops, last, ui>>

EvalQuote ==
    \E amountA \in LibAmounts, reserveA \in LibAmounts, reserveB \in LibAmounts :
        LET r == quote(amountA, reserveA, reserveB)
        IN  /\ lib' = [fn |-> "quote", a |-> amountA, b |-> reserveA,
                       c |-> reserveB, err |-> r.err, val |-> r.val]
            /\ UNCHANGED <<now, pairs, reserves, bal, eth, nops, last, ui>>

NextLib == EvalGetAmountOut \/ EvalQuote

SpecLib == Init /\ [][NextLib]_vars

---------------------------------------------------------------------------
(* The view entrypoint on the chains that liquidity calls leave behind: a    *)
(* deployment, or a deployment after one addLiquidity call (a pair just      *)
(* registered, a pool of a few units, a pool with one side empty).           *)

\* what the first deposit may ask: one unit more than a later call, so that
\* the pool it leaves has a ratio the later amounts do not divide
FirstAmounts == 0 .. MaxAmt + 1

AfterLiquidity ==
    Deployments \cup
    {Commit(st, addLiquidity(st, Alice, tokenA, tokenB, amountADesired,
                             amountBDesired, Bob)) :
        <<st, tokenA, tokenB, amountADesired, amountBDesired>> \in
            Deployments \X Tokens \X Tokens \X FirstAmounts \X FirstAmounts}

InitView ==
    /\ now = 0
    /\ \E st \in AfterLiquidity :
          /\ pairs = st.pairs
          /\ reserves = st.reserves
          /\ bal = st.bal
          /\ eth = st.eth
    /\ nops = 0
    /\ last = NoCall
    /\ lib = NoLib
    /\ ui = NoUi

NextView == CallGetAmountsOut \/ Return

SpecView == InitView /\ [][NextView]_vars

\* The liquidity entrypoints on the same chains: a second deposit into the
\* pool a first one made, a deposit into a pair registered but empty.
NextLiquidity == CallAddLiquidity \/ CallAddLiquidityETH \/ Return

SpecLiquidity == InitView /\ [][NextLiquidity]_vars

---------------------------------------------------------------------------
(* The swap flow of the web application (src/src/AppNew.tsx): onSwap and     *)
(* ensureAllowance, one action per stretch between two awaits, with the      *)
(* wallet, the token's allowance for the router and revokeToken around them. *)
(* ui.allowance is the allowance on chain; ui.seen is what the flow read.    *)

TokenKinds == {"native", "erc20"}
Allowances == 0 .. MaxAmt
UiAmounts == 1 .. MaxAmt

\* a slip: the allowance never found wanting
AllowanceSufficesAlways(allowance, amountIn) == TRUE

\* if (allowance >= amountIn) return
AllowanceSuffices(allowance, amountIn) == allowance >= amountIn

\* a flow begins: every field of the previous one forgotten but the allowance
UiFlow(kind, amountIn) ==
    [NoUi EXCEPT !.allowance = ui.allowance, !.kind = kind, !.amountIn = amountIn]

\* catch (e) { setTxStatus(`Error: ${msg}`) }
UiFail == [ui EXCEPT !.pc = "idle", !.txStatus = "Error"]

UiOnly == UNCHANGED <<now, pairs, reserves, bal, eth, nops, last, lib>>

\* onSwap up to its first await: its own checks, then ensureAllowance, which
\* returns at once for the native token and reads the allowance otherwise
UiOnSwap ==
    /\ ui.pc = "idle"
    /\ \E connected \in BOOLEAN, quoteReady \in BOOLEAN, chainMismatch \in BOOLEAN,
          kind \in TokenKinds, amountIn \in UiAmounts :
          ui' = IF ~connected \/ ~quoteReady \/ chainMismatch
                THEN [UiFlow(kind, amountIn) EXCEPT !.txStatus = "Error"]
                ELSE IF kind = "native"
                THEN [UiFlow(kind, amountIn) EXCEPT !.pc = "swapAsked",
                                                    !.txStatus = "Swapping..."]
                ELSE [UiFlow(kind, amountIn) EXCEPT !.pc = "reading"]
    /\ UiOnly

\* the allowance read returns: enough, and the swap is handed to the wallet;
\* not enough, and an approve for amountIn is
UiAllowanceRead ==
    /\ ui.pc = "reading"
    /\ ui' = IF AllowanceSuffices(ui.allowance, ui.amountIn)
             THEN [ui EXCEPT !.seen = ui.allowance, !.pc = "swapAsked",
                             !.txStatus = "Swapping..."]
             ELSE [ui EXCEPT !.seen = ui.allowance, !.pc = "approveAsked",
                             !.approveAmount = ui.amountIn,
                             !.txStatus = "Approving..."]
    /\ UiOnly

\* the wallet sends the approve, or the user declines and writeContract throws
UiApproveSent ==
    /\ ui.pc = "approveAsked"
    /\ \/ ui' = [ui EXCEPT !.pc = "approving", !.approve = "sent"]
       \/ ui' = UiFail
    /\ UiOnly

\* the approve is mined and waitForTransactionReceipt returns its receipt,
\* whose status the flow does not look at: the token set the allowance, or
\* the transaction reverted
UiApproveMined ==
    /\ ui.pc = "approving"
    /\ \/ ui' = [ui EXCEPT !.pc = "refreshing", !.approve = "success",
                           !.allowance = ui.approveAmount]
       \/ ui' = [ui EXCEPT !.pc = "refreshing", !.approve = "reverted"]
    /\ UiOnly

\* the allowance cache refreshed (its failure ignored), ensureAllowance
\* returns and the swap is handed to the wallet
UiRefreshed ==
    /\ ui.pc = "refreshing"
    /\ ui' = [ui EXCEPT !.pc = "swapAsked", !.txStatus = "Swapping..."]
    /\ UiOnly

\* the wallet submits the swap, or the user declines
UiSwapSent ==
    /\ ui.pc = "swapAsked"
    /\ \/ ui' = [ui EXCEPT !.pc = "swapSent", !.atSubmit = ui.allowance]
       \/ ui' = UiFail
    /\ UiOnly

\* the swap's receipt arrives; a swap of a token that went through has spent
\* amountIn of the allowance
UiSwapMined ==
    /\ ui.pc = "swapSent"
    /\ \/ /\ ui.kind = "erc20" => ui.allowance >= ui.amountIn
          /\ ui' = [ui EXCEPT !.pc = "idle", !.txStatus = "Success",
                              !.allowance = IF ui.kind = "erc20"
                                            THEN @ - ui.amountIn ELSE @]
       \/ ui' = [ui EXCEPT !.pc = "idle", !.txStatus = "Success"]
    /\ UiOnly

\* revokeToken for the input token, whenever the user asks: approve(router, 0)
\* mined
UiRevoke ==
    /\ ui.allowance > 0
    /\ ui' = [ui EXCEPT !.allowance = 0, !.revoked = (ui.pc # "idle")]
    /\ UiOnly

InitUi ==
    /\ now = 0
    /\ pairs = Seeded.pairs
    /\ reserves = Seeded.reserves
    /\ bal = Seeded.bal
    /\ eth = Seeded.eth
    /\ nops = 0
    /\ last = NoCall
    /\ lib = NoLib
    /\ \E allowance \in Allowances : ui = [NoUi EXCEPT !.allowance = allowance]

NextUi ==
    \/ UiOnSwap
    \/ UiAllowanceRead
    \/ UiApproveSent
    \/ UiApproveMined
    \/ UiRefreshed
    \/ UiSwapSent
    \/ UiSwapMined
    \/ UiRevoke

SpecUi == InitUi /\ [][NextUi]_vars

---------------------------------------------------------------------------
(* The web application's component state (src/src/AppNew.tsx): the inputs   *)
(* of the swap form, the quote effect with the requests it has in flight,   *)
(* the wallet, the swap flow and the history.  A handler and the effects    *)
(* its state changes start make one action; each await ends an action.      *)
(* The tokens of the form are in whole units (decimals 0).                   *)

ROBINHOOD_CHAIN_ID == 46630
OtherChainId == 1
NoChainId == 0                  \* useState<number | null>(null)
ChainIds == {ROBINHOOD_CHAIN_ID, OtherChainId}

DEFAULT_SLIPPAGE_BPS == 50
HISTORY_LIMIT == 50

NATIVE_TOKEN == [kind |-> "native", address |-> ZERO]
Erc20(a) == [kind |-> "erc20", address |-> a]
FormTokens == {NATIVE_TOKEN, Erc20(SeedToken), Erc20(ExternalToken)}

\* what the user types into the amount field
AmountTexts == {"", "0", "00", "1", "2", "x"}

DecimalText == <<"0", "1", "2", "3", "4", "5", "6", "7", "8", "9">>

\* formatUnits(value, 0)
formatUnits(value) ==
    IF value + 1 \in DOMAIN DecimalText THEN DecimalText[value + 1] ELSE "many"

\* parseUnits(text, 0): the number written, or the exception it throws
parseUnits(text) ==
    IF text = "00" THEN [err |-> "", val |-> 0]
    ELSE IF \E n \in DOMAIN DecimalText : DecimalText[n] = text
    THEN [err |-> "", val |-> (CHOOSE n \in DOMAIN DecimalText : DecimalText[n] = text) - 1]
    ELSE [err |-> "Invalid amount", val |-> 0]

isSameToken(a, b) ==
    IF a.kind # b.kind THEN FALSE
    ELSE IF a.kind = "native" THEN TRUE
    ELSE a.address = b.address

\* the path the quote effect asks the router about
QuotePath(tokenIn, tokenOut) ==
    IF tokenIn.kind = "native" THEN <<WETH, tokenOut.address>>
    ELSE IF tokenOut.kind = "native" THEN <<tokenIn.address, WETH>>
    ELSE <<tokenIn.address, tokenOut.address>>

QuoteIdle == [status |-> "idle", amountOut |-> 0, path |-> <<>>, message |-> ""]
QuoteLoading == [QuoteIdle EXCEPT !.status = "loading"]
QuoteError(message) == [QuoteIdle EXCEPT !.status = "error", !.message = message]
QuoteReady(amountOut, path) ==
    [QuoteIdle EXCEPT !.status = "ready", !.amountOut = amountOut, !.path = path]

NoFlow ==
    [address |-> ZERO, tokenIn |-> NATIVE_TOKEN, tokenOut |-> NATIVE_TOKEN,
     amountInText |-> "", amountOutText |-> "", amountIn |-> 0, minOut |-> 0,
     path |-> <<>>, hash |-> 0]

NoReceipt == [hash |-> 0, status |-> "none"]

\* the component as it mounts
AppStart(walletClient) ==
    [walletClient |-> walletClient, address |-> ZERO, chainId |-> NoChainId,
     conn |-> "idle",
     tokenIn |-> NATIVE_TOKEN, tokenOut |-> Erc20(SeedToken), amountInText |-> "",
     slippageBps |-> DEFAULT_SLIPPAGE_BPS,
     quote |-> QuoteIdle, requests |-> {},
     pc |-> "idle", flow |-> NoFlow, txStatus |-> "", hashes |-> 0,
     receipt |-> NoReceipt, history |-> <<>>, stored |-> <<>>]

\* the cleanup of the quote effect: cancelled = true in each earlier closure
CancelAll(requests) == {[r EXCEPT !.cancelled = TRUE] : r \in requests}

\* a slip: the response of a superseded request taken like any other
CancelledNever(r) == FALSE

\* if (!cancelled) setQuote(...)
Cancelled(r) == r.cancelled

\* the quote effect as its dependencies change: the earlier run cleaned up,
\* then runQuote up to its first await
runQuote(u) ==
    LET u0 == [u EXCEPT !.requests = CancelAll(@), !.txStatus = ""]
        trimmed == u.amountInText
        amountIn == parseUnits(trimmed)
    IN  IF u.amountInText = "" THEN [u0 EXCEPT !.quote = QuoteIdle]
        ELSE IF isSameToken(u.tokenIn, u.tokenOut)
        THEN [u0 EXCEPT !.quote = QuoteError("Token input dan output tidak boleh sama")]
        ELSE IF trimmed = "0" THEN [u0 EXCEPT !.quote = QuoteIdle]
        ELSE IF amountIn.err # "" THEN [u0 EXCEPT !.quote = QuoteError("Invalid amount")]
        ELSE IF amountIn.val = 0 THEN [u0 EXCEPT !.quote = QuoteIdle]
        ELSE [u0 EXCEPT !.quote = QuoteLoading,
                        !.requests = @ \cup {[tokenIn |-> u.tokenIn,
                                              tokenOut |-> u.tokenOut,
                                              amountIn |-> amountIn.val,
                                              cancelled |-> FALSE]}]

\* the state after a handler: the quote effect runs again if one of tokenIn,
\* tokenOut and amountInText is no longer what it was
Rendered(u) ==
    IF <<u.tokenIn, u.tokenOut, u.amountInText>> =
       <<ui.tokenIn, ui.tokenOut, ui.amountInText>>
    THEN u ELSE runQuote(u)

AppOnly == UNCHANGED <<now, pairs, reserves, bal, eth, nops, last, lib>>

\* onChange={(e) => setAmountInText(e.target.value)}, for the texts typed
\* while fewer than inFlight requests await their response
setAmountInTextOf(texts, inFlight) ==
    /\ Cardinality(ui.requests) < inFlight
    /\ \E text \in texts :
          /\ text # ui.amountInText
          /\ ui' = Rendered([ui EXCEPT !.amountInText = text])
    /\ AppOnly

setAmountInText == setAmountInTextOf(AmountTexts, MaxInFlight)

\* pickToken with the token list opened for one side
pickTokenOf(inFlight) ==
    /\ Cardinality(ui.requests) < inFlight
    /\ \E selectSide \in {"in", "out"}, token \in FormTokens :
          /\ token # (IF selectSide = "in" THEN ui.tokenIn ELSE ui.tokenOut)
          /\ ui' = Rendered(IF selectSide = "in" THEN [ui EXCEPT !.tokenIn = token]
                            ELSE [ui EXCEPT !.tokenOut = token])
    /\ AppOnly

pickToken == pickTokenOf(MaxInFlight)

\* formatUnits(quote.amountOut, ...) of a ready quote, '' otherwise
amountOutText(u) ==
    IF u.quote.status # "ready" THEN "" ELSE formatUnits(u.quote.amountOut)

onSwitch ==
    /\ Cardinality(ui.requests) < MaxInFlight
    /\ ui' = Rendered([ui EXCEPT !.tokenIn = ui.tokenOut, !.tokenOut = ui.tokenIn,
                                 !.amountInText = amountOutText(ui),
                                 !.txStatus = ""])
    /\ AppOnly

\* what the two reads of runQuote come back with: the amounts of the
\* router's getAmountsOut on the chain, or an exception
QuoteResult(r, answered) ==
    LET path == QuotePath(r.tokenIn, r.tokenOut)
        q == getAmountsOut(Cur, r.amountIn, path)
    IN  IF ~answered THEN QuoteError("request failed")
        ELSE IF q.err # "" THEN QuoteError(q.err)
        ELSE QuoteReady(q.amounts[Len(q.amounts)], path)

\* runQuote after its awaits, for one of the requests in flight
quoteResponse ==
    /\ \E r \in ui.requests, answered \in BOOLEAN :
          ui' = [ui EXCEPT !.requests = @ \ {r},
                           !.quote = IF Cancelled(r) THEN @
                                     ELSE QuoteResult(r, answered)]
    /\ AppOnly

\* the chain the application reads: both tokens seeded against the native
\* asset, and a pool of the two tokens
AppChain ==
    Commit(SeededExternal,
           addLiquidity(SeededExternal, Alice, SeedToken, ExternalToken, 3, 3, Alice))

InitApp ==
    /\ now = 0
    /\ pairs = AppChain.pairs
    /\ reserves = AppChain.reserves
    /\ bal = AppChain.bal
    /\ eth = AppChain.eth
    /\ nops = 0
    /\ last = NoCall
    /\ lib = NoLib
    /\ \E walletClient \in BOOLEAN : ui = AppStart(walletClient)

\* the form and its quotes alone
NextQuote == setAmountInText \/ pickToken \/ onSwitch \/ quoteResponse

SpecQuote == InitApp /\ [][NextQuote]_vars

---------------------------------------------------------------------------
(* The slippage setting and the minimum output computed from it *)

\* what the user types into the slippage field, with what Number() makes of
\* it: a finite number, given in thousandths of a percent, or NaN / Infinity
PctEntries ==
    {[text |-> "",         finite |-> TRUE,  milli |-> 0],
     [text |-> "abc",      finite |-> FALSE, milli |-> 0],
     [text |-> "Infinity", finite |-> FALSE, milli |-> 0],
     [text |-> "-1",       finite |-> TRUE,  milli |-> -1000],
     [text |-> "0.004",    finite |-> TRUE,  milli |-> 4],
     [text |-> "0.005",    finite |-> TRUE,  milli |-> 5],
     [text |-> "0.5",      finite |-> TRUE,  milli |-> 500],
     [text |-> "1",        finite |-> TRUE,  milli |-> 1000],
     [text |-> "50",       finite |-> TRUE,  milli |-> 50000],
     [text |-> "99.99",    finite |-> TRUE,  milli |-> 99990],
     [text |-> "100",      finite |-> TRUE,  milli |-> 100000],
     [text |-> "100.01",   finite |-> TRUE,  milli |-> 100010],
     [text |-> "150",      finite |-> TRUE,  milli |-> 150000],
     [text |-> "200",      finite |-> TRUE,  milli |-> 200000]}

PctTexts == {e.text : e \in PctEntries}

Number(text) == CHOOSE e \in PctEntries : e.text = text

\* Math.round(n / d) for d > 0: the nearest integer, a half rounded up
MathRound(n, d) == (2 * n + d) \div (2 * d)

\* BigInt division: the quotient truncated towards zero
BigIntDiv(n, d) == IF n >= 0 THEN n \div d ELSE -((-n) \div d)

\* a slip: Math.max(0, ...) left out
pctToBpsUnclamped(pctText) ==
    LET pct == Number(pctText)
    IN  IF ~pct.finite THEN 0 ELSE MathRound(pct.milli, 10)

pctToBps(pctText) ==
    LET pct == Number(pctText)
    IN  IF ~pct.finite THEN 0 ELSE Max(0, MathRound(pct.milli, 10))

\* (quote.amountOut * BigInt(10_000 - slippageBps)) / 10_000n
minOut(amountOut, slippageBps) == BigIntDiv(amountOut * (10000 - slippageBps), 10000)

\* amounts a ready quote may hold
ReadyAmounts == (0 .. MaxLibAmt) \cup {199, 200, 9999, 10000, 10001}

\* onChange={(e) => setSlippageBps(pctToBps(e.target.value))}
setSlippageBps ==
    /\ \E text \in PctTexts : ui' = [ui EXCEPT !.slippageBps = pctToBps(text)]
    /\ AppOnly

\* the minimum output for a ready quote under the setting in force
EvalMinOut ==
    /\ \E amountOut \in ReadyAmounts :
          lib' = [fn |-> "minOut", a |-> amountOut, b |-> ui.slippageBps, c |-> 0,
                  err |-> "", val |-> minOut(amountOut, ui.slippageBps)]
    /\ UNCHANGED <<now, pairs, reserves, bal, eth, nops, last, ui>>

NextSlippage == setSlippageBps \/ EvalMinOut

SpecSlippage == InitApp /\ [][NextSlippage]_vars

---------------------------------------------------------------------------
(* The wallet, the primary button and the swap flow of the application.     *)
(* One swap flow is followed at a time.                                     *)

Accounts == {Alice}

\* loadHistory(address): what localStorage holds, its first 50 items
loadHistory(stored) == SubSeq(stored, 1, Min(Len(stored), HISTORY_LIMIT))

\* the effect on [address]: the history of the account now connected
HistoryEffect(u) ==
    [u EXCEPT !.history = IF u.address = ZERO THEN <<>> ELSE loadHistory(u.stored)]

\* the wallet reports its accounts: init() and the accountsChanged listener
onAccountsChanged ==
    /\ ui.walletClient
    /\ \E acc \in Accounts \cup {ZERO} :
          /\ acc # ui.address
          /\ ui' = HistoryEffect([ui EXCEPT !.address = acc])
    /\ AppOnly

\* the wallet reports its chain: init() and the chainChanged listener
onChainChanged ==
    /\ ui.walletClient
    /\ \E cid \in ChainIds :
          /\ cid # ui.chainId
          /\ ui' = [ui EXCEPT !.chainId = cid]
    /\ AppOnly

disconnectWallet ==
    /\ ui.address # ZERO
    /\ ui' = HistoryEffect([ui EXCEPT !.address = ZERO, !.txStatus = ""])
    /\ AppOnly

\* connectWallet after eth_requestAccounts: the account set, or the request
\* refused
connectAccounts ==
    /\ ui.conn = "accounts"
    /\ \/ \E acc \in Accounts :
             ui' = HistoryEffect([ui EXCEPT !.address = acc, !.conn = "chain"])
       \/ ui' = [ui EXCEPT !.conn = "idle"]
    /\ AppOnly

\* connectWallet after eth_chainId: the chain id set, or the request failed
connectChain ==
    /\ ui.conn = "chain"
    /\ \/ \E cid \in ChainIds : ui' = [ui EXCEPT !.chainId = cid, !.conn = "idle"]
       \/ ui' = [ui EXCEPT !.conn = "idle"]
    /\ AppOnly

\* Boolean(chainId && chainId !== robinhoodTestnet.id)
chainMismatch(u) == u.chainId # NoChainId /\ u.chainId # ROBINHOOD_CHAIN_ID

\* a slip: the quote's status left out of the reasons
swapDisabledReasonNoQuote(u) ==
    IF u.address = ZERO THEN ""
    ELSE IF chainMismatch(u) THEN "Wrong network"
    ELSE IF u.amountInText = "" THEN "Enter amount"
    ELSE ""

swapDisabledReason(u) ==
    IF u.address = ZERO THEN ""
    ELSE IF chainMismatch(u) THEN "Wrong network"
    ELSE IF u.amountInText = "" THEN "Enter amount"
    ELSE IF u.quote.status = "loading" THEN "Fetching quote"
    ELSE IF u.quote.status = "error" THEN "Quote error"
    ELSE IF u.quote.status # "ready" THEN "Quote not ready"
    ELSE ""

canSwap(u) == u.address # ZERO /\ swapDisabledReason(u) = ""

canConnect(u) == u.walletClient

\* catch (e) { setTxStatus(`Error: ${msg}`) }
AppFail(u) == [u EXCEPT !.pc = "idle", !.txStatus = "Error"]

\* onSwap up to its first await: its checks, the amounts, and ensureAllowance,
\* which returns at once for the native token
onSwap(u) ==
    IF u.address = ZERO \/ ~u.walletClient THEN AppFail(u)
    ELSE IF u.quote.status # "ready" THEN AppFail(u)
    ELSE IF chainMismatch(u) THEN AppFail(u)
    ELSE IF parseUnits(u.amountInText).err # "" THEN AppFail(u)
    ELSE LET flow == [address |-> u.address, tokenIn |-> u.tokenIn,
                      tokenOut |-> u.tokenOut, amountInText |-> u.amountInText,
                      amountOutText |-> amountOutText(u),
                      amountIn |-> parseUnits(u.amountInText).val,
                      minOut |-> minOut(u.quote.amountOut, u.slippageBps),
                      path |-> u.quote.path, hash |-> 0]
         IN  IF u.tokenIn.kind = "native"
             THEN [u EXCEPT !.flow = flow, !.pc = "swapAsked",
                            !.txStatus = "Swapping..."]
             ELSE [u EXCEPT !.flow = flow, !.pc = "ensuring"]

connectWallet(u) == [u EXCEPT !.conn = "accounts"]

\* the button under the form
onPrimaryAction ==
    /\ ui.pc = "idle" /\ (ui.address = ZERO => ui.conn = "idle")
    /\ ui.hashes < MaxSwaps
    /\ ui' = IF ui.address = ZERO
             THEN (IF ~canConnect(ui) THEN ui ELSE connectWallet(ui))
             ELSE IF ~ui.walletClient
             THEN (IF ~canConnect(ui) THEN ui ELSE connectWallet(ui))
             ELSE IF ~canSwap(ui) THEN ui
             ELSE onSwap(ui)
    /\ AppOnly

\* ensureAllowance returns, after its read and the approve it may have
\* needed, or throws
allowanceEnsured ==
    /\ ui.pc = "ensuring"
    /\ \/ ui' = [ui EXCEPT !.pc = "swapAsked", !.txStatus = "Swapping..."]
       \/ ui' = AppFail(ui)
    /\ AppOnly

\* walletClient.writeContract returns the hash of the swap, or the user
\* declines
swapSent ==
    /\ ui.pc = "swapAsked"
    /\ \/ ui' = [ui EXCEPT !.pc = "swapSent", !.hashes = @ + 1,
                           !.flow.hash = ui.hashes + 1]
       \/ ui' = AppFail(ui)
    /\ AppOnly

tokenLabel(token) == IF token.kind = "native" THEN "ETH" ELSE "ERC20"

HistoryItem(flow) ==
    [txHash |-> flow.hash, fromSymbol |-> tokenLabel(flow.tokenIn),
     toSymbol |-> tokenLabel(flow.tokenOut), amountInText |-> flow.amountInText,
     amountOutText |-> flow.amountOutText]

\* [item, ...prev].slice(0, 50)
Prepended(item, prev) ==
    SubSeq(<<item>> \o prev, 1, Min(Len(prev) + 1, HISTORY_LIMIT))

\* a slip: the item recorded after every branch of onSwap
RecordsSwapAlways(flow) == TRUE

\* the branches of onSwap that end with setHistory: the native input and the
\* token-to-token one; the branch of the native output returns before
RecordsSwap(flow) == flow.tokenIn.kind = "native" \/ flow.tokenOut.kind # "native"

\* waitForTransactionReceipt returns the receipt, whose status onSwap does
\* not read, or throws
swapMined ==
    /\ ui.pc = "swapSent"
    /\ \/ \E status \in {"success", "reverted"} :
             LET next == Prepended(HistoryItem(ui.flow), ui.history)
                 u == [ui EXCEPT !.pc = "idle", !.txStatus = "Success",
                                 !.receipt = [hash |-> ui.flow.hash,
                                              status |-> status]]
             IN  ui' = IF RecordsSwap(ui.flow)
                       THEN [u EXCEPT !.history = next, !.stored = next]
                       ELSE u
       \/ ui' = AppFail(ui)
    /\ AppOnly

\* the button of the history dialog
clearHistory ==
    /\ ui.address # ZERO /\ ui.history # <<>>
    /\ ui' = [ui EXCEPT !.history = <<>>, !.stored = <<>>]
    /\ AppOnly

\* the form as the flow needs it: one amount typed, one request in flight
NextApp ==
    \/ setAmountInTextOf({"1"}, 1) \/ pickTokenOf(1) \/ quoteResponse
    \/ onAccountsChanged \/ onChainChanged \/ disconnectWallet
    \/ connectAccounts \/ connectChain
    \/ onPrimaryAction \/ allowanceEnsured \/ swapSent \/ swapMined
    \/ clearHistory

SpecApp == InitApp /\ [][NextApp]_vars

---------------------------------------------------------------------------
(* A swap entrypoint followed statement by statement: the requires on the   *)
(* deadline and the path, then _ensurePair, the quote and the require on    *)
(* the output, then the transfers and the pair calls.  The chain sees       *)
(* nothing until the transaction returns.  last.phase is the request's      *)
(* place in the specification's state machine (section 4.3).                *)

Phases == {"none", "Pending", "Validated", "Quoted", "Settled", "Failed"}
Terminal == {"Settled", "Failed"}

\* a slip: the deadline not looked at
ValidateNoDeadline(op, path, deadline, time) ==
    IF op = "swapExactETHForTokens" /\ ~PathFromNative(path) THEN "ROUTER: PATH"
    ELSE IF op = "swapExactTokensForETH" /\ ~PathToNative(path) THEN "ROUTER: PATH"
    ELSE IF ~(Len(path) >= 2) THEN "ROUTER: PATH"
    ELSE ""

\* the two requires every swap entrypoint begins with
Validate(op, path, deadline, time) ==
    IF ~NotExpired(time, deadline) THEN "ROUTER: EXPIRED"
    ELSE IF op = "swapExactETHForTokens" /\ ~PathFromNative(path) THEN "ROUTER: PATH"
    ELSE IF op = "swapExactTokensForETH" /\ ~PathToNative(path) THEN "ROUTER: PATH"
    ELSE IF ~(Len(path) >= 2) THEN "ROUTER: PATH"
    ELSE ""

\* the chain the entrypoint starts on: msg.value already with the router
Entered(st, r) ==
    IF r.op = "swapExactETHForTokens" THEN PayIn(st, Alice, r.value) ELSE st

\* the entrypoint down to the require on the last amount: the two requires
\* it begins with, _ensurePair, getAmountsOut and that require
Quote(st, r) ==
    LET c0 == Ctx(Entered(st, r))
        refused == Validate(r.op, r.path, r.deadline, r.time)
        c1 == _ensurePair(c0, r.path[1], r.path[2])
        q == getAmountsOut(c1.st, r.amountIn, r.path)
    IN  IF refused # "" THEN Revert(c0, refused)
        ELSE IF c1.err # "" THEN c1
        ELSE IF q.err # "" THEN Revert(c1, q.err)
        ELSE IF ~SufficientOutput(q.amounts, r.amountOutMin)
        THEN Revert(c1, "ROUTER: INSUFFICIENT_OUTPUT")
        ELSE [c1 EXCEPT !.amounts = q.amounts]

\* the entrypoint of a request, run from its first statement to its last
Run(st, r) ==
    CASE r.op = "swapExactTokensForTokens" ->
            swapExactTokensForTokens(st, Alice, r.amountIn, r.amountOutMin, r.path,
                                     r.to, r.deadline, r.time)
      [] r.op = "swapExactETHForTokens" ->
            swapExactETHForTokens(Entered(st, r), Alice, r.value, r.amountOutMin,
                                  r.path, r.to, r.deadline, r.time)
      [] r.op = "swapExactTokensForETH" ->
            swapExactTokensForETH(st, Alice, r.amountIn, r.amountOutMin, r.path,
                                  r.to, r.deadline, r.time)

ChainUnchanged == UNCHANGED <<now, pairs, reserves, bal, eth, nops, lib, ui>>

\* the call arrives.  The transaction runs on the chain as it found it and
\* on the block's time: what its statements will do is settled from here on,
\* and last.quoted and last.outcome hold it until they have run
ReqSubmit ==
    /\ Idle
    /\ nops < MaxOps
    /\ \E op \in {"swapExactTokensForTokens", "swapExactETHForTokens",
                   "swapExactTokensForETH"},
          amountIn \in Amounts, amountOutMin \in Amounts, path \in Paths,
          to \in Recipients, deadline \in Deadlines :
          /\ op = "swapExactETHForTokens" => amountIn <= eth[Alice]
          /\ last' = LET r == [NoCall EXCEPT
                        !.op = op, !.amountIn = amountIn,
                        !.value = IF op = "swapExactETHForTokens" THEN amountIn ELSE 0,
                        !.amountOutMin = amountOutMin, !.path = path, !.to = to,
                        !.deadline = deadline, !.time = now, !.pre = Cur,
                        !.phase = "Pending"]
                      IN  [r EXCEPT !.quoted = Quote(Cur, r),
                                    !.outcome = Run(Cur, r)]
    /\ ChainUnchanged

ReqValidate ==
    /\ last.phase = "Pending"
    /\ LET err == Validate(last.op, last.path, last.deadline, last.time)
       IN  last' = [last EXCEPT !.err = err,
                                !.phase = IF err = "" THEN "Validated" ELSE "Failed"]
    /\ ChainUnchanged

ReqQuote ==
    /\ last.phase = "Validated"
    /\ LET c == last.quoted
       IN  last' = [last EXCEPT !.err = c.err, !.trace = c.trace,
                                !.amounts = c.amounts,
                                !.phase = IF c.err = "" THEN "Quoted" ELSE "Failed"]
    /\ ChainUnchanged

ReqSettle ==
    /\ last.phase = "Quoted"
    /\ Finish(last, last.outcome)

\* the transaction is under way: it runs on to its end
ReqStep == ReqValidate \/ ReqQuote \/ ReqSettle

NextRequest == Tick \/ ReqSubmit \/ ReqValidate \/ ReqQuote \/ ReqSettle \/ Return

SpecRequest == Init /\ [][NextRequest]_vars /\ WF_vars(ReqStep)

---------------------------------------------------------------------------
(* The entrypoints with any recipient: the caller's own address and the     *)
(* router's among them.                                                     *)

NextAnyRecipient ==
    \/ Tick
    \/ CallSwapExactTokensForTokensTo(AnyRecipients)
    \/ CallSwapExactETHForTokensTo(AnyRecipients)
    \/ CallSwapExactTokensForETHTo(AnyRecipients)
    \/ CallAddLiquidityTo(AnyRecipients)
    \/ CallAddLiquidityETHTo(AnyRecipients)
    \/ Return

SpecAnyRecipient == Init /\ [][NextAnyRecipient]_vars

---------------------------------------------------------------------------
(* One caller sending the same swap again and again, or asking for a quote  *)
(* of it, with nothing else in between: a swap settled, then up to          *)
(* MaxRepeats further ones with the same arguments.                         *)

\* a slip: the chain as the request before this one found it, kept and read
\* again
ChainReadCached(st, r) == r.pre

\* the chain an entrypoint reads its reserves from: the pairs themselves, as
\* they are when the call runs (getReserves asks the pair, and the router
\* has no storage of its own beside factory and WETH)
ChainRead(st, r) == st

\* the request r, submitted anew
Again(r) ==
    [NoCall EXCEPT !.op = r.op, !.amountIn = r.amountIn, !.value = r.value,
                   !.amountOutMin = r.amountOutMin, !.path = r.path,
                   !.to = r.to, !.deadline = r.deadline, !.time = now]

SwapAgain ==
    /\ last.op \in {"swapExactTokensForTokens", "swapExactETHForTokens",
                    "swapExactTokensForETH"}
    /\ last.phase = "Settled"
    /\ nops < MaxOps + MaxRepeats
    /\ last.op = "swapExactETHForTokens" => last.value <= eth[Alice]
    /\ Finish(Again(last), Run(ChainRead(Cur, last), Again(last)))

QuoteAgain ==
    /\ last.op \in {"swapExactTokensForTokens", "swapExactETHForTokens",
                    "swapExactTokensForETH"}
    /\ last.phase = "Settled"
    /\ LET q == getAmountsOut(ChainRead(Cur, last), last.amountIn, last.path)
       IN  last' = [NoCall EXCEPT !.op = "getAmountsOut",
                                  !.amountIn = last.amountIn, !.path = last.path,
                                  !.time = now, !.err = q.err,
                                  !.amounts = q.amounts, !.pre = Cur,
                                  !.phase = IF q.err = "" THEN "Settled"
                                            ELSE "Failed"]
    /\ UNCHANGED <<now, pairs, reserves, bal, eth, nops, lib, ui>>

NextRepeat ==
    \/ CallSwapExactTokensForTokens
    \/ CallSwapExactETHForTokens
    \/ CallSwapExactTokensForETH
    \/ SwapAgain
    \/ QuoteAgain
    \/ Return

SpecRepeat == InitView /\ [][NextRepeat]_vars

---------------------------------------------------------------------------
(* Vocabulary of the properties *)

\* the specification's error taxonomy (section 7) for the revert messages
ErrorKind(msg) ==
    CASE msg = "" -> "None"
      [] msg = "ROUTER: EXPIRED" -> "ExpiredError"
      [] msg \in {"ROUTER: PATH", "LIB: PATH", "LIB: IDENTICAL", "LIB: ZERO",
                  "LIB: INSUFFICIENT_AMOUNT", "LIB: INSUFFICIENT_INPUT",
                  "FACTORY: IDENTICAL", "FACTORY: ZERO"} -> "ValidationError"
      [] msg = "ROUTER: INSUFFICIENT_OUTPUT" -> "SlippageError"
      [] msg \in {"LIB: INSUFFICIENT_LIQUIDITY", "PAIR: INSUFFICIENT_LIQUIDITY"}
            -> "LiquidityError"
      [] msg \in {"ROUTER: TRANSFER_A", "ROUTER: TRANSFER_B",
                  "ROUTER: TRANSFER_TOKEN", "ROUTER: WETH_TRANSFER",
                  "ROUTER: TRANSFER_FROM", "WETH: VALUE", "WETH: BALANCE",
                  "NATIVE: BALANCE", "ROUTER: ETH_ONLY"} -> "TransferError"
      [] OTHER -> "Other"

SwapOps ==
    {"swapExactTokensForTokens", "swapExactETHForTokens", "swapExactTokensForETH"}
LiquidityOps == {"addLiquidity", "addLiquidityETH"}

\* the chain is as it was before the latest call
ChainUntouched == Cur = last.pre

\* the pair of two distinct tokens, and its reserve of one of them
PairOf(tokenA, tokenB) == PairAddr(Min(tokenA, tokenB), Max(tokenA, tokenB))
ReserveOf(st, pair, token) ==
    IF token = PairToken0(pair) THEN st.reserves[pair][1] ELSE st.reserves[pair][2]
Product(st, pair) == st.reserves[pair][1] * st.reserves[pair][2]

\* the path passes the entrypoint's own validation
PathValid(op, path) ==
    /\ Len(path) >= 2
    /\ op = "swapExactETHForTokens" => path[1] = WETH
    /\ op = "swapExactTokensForETH" => path[Len(path)] = WETH

\* what getAmountsOut answers for the latest call's input in the state before it
QuoteBefore == getAmountsOut(last.pre, last.amountIn, last.path)

---------------------------------------------------------------------------
(* Properties of the pure pricing functions, under SpecLib *)

\* C1: for amountIn, reserveIn, reserveOut all positive getAmountOut returns
\* an amountOut strictly below reserveOut, and the product of the reserves
\* after the trade, (reserveIn + amountIn) * (reserveOut - amountOut), is at
\* least reserveIn * reserveOut.
C1_OutputKeepsProduct ==
    (lib.fn = "getAmountOut" /\ lib.a > 0 /\ lib.b > 0 /\ lib.c > 0) =>
        /\ lib.err = ""
        /\ lib.val < lib.c
        /\ (lib.b + lib.a) * (lib.c - lib.val) >= lib.b * lib.c

C1_Witness ==
    /\ lib.fn = "getAmountOut" /\ lib.err = ""
    /\ lib.a = 1000 /\ lib.b = 1 /\ lib.c = 1000 /\ lib.val = 998

\* C7: for positive arguments getAmountOut returns the floor of
\* amountIn * 997 * reserveOut / (reserveIn * 1000 + amountIn * 997): the one
\* integer q with q * d <= n < (q + 1) * d; 100 into reserves 1000 / 1000
\* gives 90.
C7_ExactFloor ==
    (lib.fn = "getAmountOut" /\ lib.a > 0 /\ lib.b > 0 /\ lib.c > 0) =>
        /\ lib.err = ""
        /\ lib.val * (lib.b * 1000 + lib.a * 997) <= lib.a * 997 * lib.c
        /\ lib.a * 997 * lib.c < (lib.val + 1) * (lib.b * 1000 + lib.a * 997)
        /\ (lib.a = 100 /\ lib.b = 1000 /\ lib.c = 1000) => lib.val = 90

C7_Witness ==
    /\ lib.fn = "getAmountOut" /\ lib.err = ""
    /\ lib.a = 100 /\ lib.b = 1000 /\ lib.c = 1000 /\ lib.val = 90

\* C8: getAmountOut fails with ValidationError when amountIn is 0, whatever
\* the reserves; with LiquidityError when amountIn > 0 and a reserve is 0;
\* and returns a value only when all three arguments are positive.
C8_AmountOutErrors ==
    lib.fn = "getAmountOut" =>
        /\ lib.a = 0 => ErrorKind(lib.err) = "ValidationError"
        /\ (lib.a > 0 /\ (lib.b = 0 \/ lib.c = 0)) =>
               ErrorKind(lib.err) = "LiquidityError"
        /\ lib.err = "" => (lib.a > 0 /\ lib.b > 0 /\ lib.c > 0)

C8_Witness ==
    /\ lib.fn = "getAmountOut" /\ lib.a = 0 /\ lib.b = 0 /\ lib.c = 0
    /\ lib.err = "LIB: INSUFFICIENT_INPUT"

\* C9 as stated: quote returns floor(amountA * reserveB / reserveA) for
\* positive arguments, fails with ValidationError when amountA is 0, and
\* fails with LiquidityError when reserveA or reserveB is 0.
C9_AsStated ==
    lib.fn = "quote" =>
        /\ (lib.a > 0 /\ lib.b > 0 /\ lib.c > 0) =>
              /\ lib.err = ""
              /\ lib.val * lib.b <= lib.a * lib.c
              /\ lib.a * lib.c < (lib.val + 1) * lib.b
        /\ lib.a = 0 => ErrorKind(lib.err) = "ValidationError"
        /\ (lib.b = 0 \/ lib.c = 0) => ErrorKind(lib.err) = "LiquidityError"

\* C9 amended: the amount is checked first, so a zero reserve gives
\* LiquidityError only when amountA > 0; amountA = 0 gives ValidationError
\* whatever the reserves.
C9_QuoteFloorAndErrors ==
    lib.fn = "quote" =>
        /\ (lib.a > 0 /\ lib.b > 0 /\ lib.c > 0) =>
              /\ lib.err = ""
              /\ lib.val * lib.b <= lib.a * lib.c
              /\ lib.a * lib.c < (lib.val + 1) * lib.b
        /\ lib.a = 0 => ErrorKind(lib.err) = "ValidationError"
        /\ (lib.a > 0 /\ (lib.b = 0 \/ lib.c = 0)) =>
               ErrorKind(lib.err) = "LiquidityError"

C9_Witness ==
    /\ lib.fn = "quote" /\ lib.err = ""
    /\ lib.a = 5 /\ lib.b = 3 /\ lib.c = 4 /\ lib.val = 6

---------------------------------------------------------------------------
(* Properties of the router's transactions, under Spec.  A state with       *)
(* last.op set is the state right after that call: last.pre is the chain    *)
(* before it and the chain variables are the chain after it.                *)

\* the pairs the latest call's path goes through
PairsOnPath == {PairOf(last.path[i], last.path[i + 1]) : i \in 1 .. Len(last.path) - 1}

\* what the first n hops of the latest call's path bring into a pair's reserve
\* of a token: the amounts sent in less the amounts the pair was told to release
RECURSIVE NetIn(_, _, _)
NetIn(pair, token, n) ==
    IF n = 0 THEN 0
    ELSE NetIn(pair, token, n - 1)
         + (IF PairOf(last.path[n], last.path[n + 1]) # pair THEN 0
            ELSE (IF last.path[n] = token THEN last.amounts[n] ELSE 0)
                 - (IF last.path[n + 1] = token THEN last.amounts[n + 1] ELSE 0))

\* C2: after a successful swap by any of the three entrypoints, the product
\* reserve0 * reserve1 of every pair on the path, a pair visited twice
\* included, is at least what it was before the swap, each reserve having
\* changed by exactly the amounts sent in and told out along the path.
C2_ProductNeverDecreases ==
    (last.op \in SwapOps /\ last.err = "") =>
        \A pair \in PairsOnPath :
            /\ Product(Cur, pair) >= Product(last.pre, pair)
            /\ \A token \in {PairToken0(pair), PairToken1(pair)} :
                  ReserveOf(Cur, pair, token) =
                      ReserveOf(last.pre, pair, token)
                          + NetIn(pair, token, Len(last.path) - 1)

\* a swap there and back through one pair that pays out on both hops
C2_Witness ==
    /\ last.op \in SwapOps /\ last.err = ""
    /\ Len(last.path) = 3 /\ last.path[1] = last.path[3]
    /\ last.amounts[3] > 0
    /\ \E pair \in PairsOnPath : Product(Cur, pair) > Product(last.pre, pair)

\* C3: a swap that reaches its quote with a final amount strictly below
\* amountOutMin fails with SlippageError and leaves all reserves as they
\* were; one whose final amount equals amountOutMin is not rejected for
\* slippage.
C3_SlippageBound ==
    (/\ last.op \in SwapOps
     /\ last.time <= last.deadline
     /\ PathValid(last.op, last.path)
     /\ QuoteBefore.err = "") =>
        LET out == QuoteBefore.amounts[Len(last.path)]
        IN  /\ out < last.amountOutMin =>
                  /\ ErrorKind(last.err) = "SlippageError"
                  /\ reserves = last.pre.reserves
            /\ out = last.amountOutMin => ErrorKind(last.err) # "SlippageError"

\* amountOutMin one unit above a positive quote
C3_Witness ==
    /\ last.op \in SwapOps
    /\ last.time <= last.deadline
    /\ PathValid(last.op, last.path)
    /\ QuoteBefore.err = ""
    /\ QuoteBefore.amounts[Len(last.path)] > 0
    /\ last.amountOutMin = QuoteBefore.amounts[Len(last.path)] + 1
    /\ last.err = "ROUTER: INSUFFICIENT_OUTPUT"

C5_DeadlineFirst ==
    last.op \in SwapOps =>
        /\ last.time > last.deadline =>
              (ErrorKind(last.err) = "ExpiredError" /\ last.trace = <<>>)
        /\ last.deadline >= last.time => ErrorKind(last.err) # "ExpiredError"

\* a swap that settles at the very time of its deadline
C5_Witness ==
    /\ last.op \in SwapOps /\ last.err = ""
    /\ last.time = last.deadline /\ last.time > 0
    /\ last.amounts[Len(last.amounts)] > 0

\* C6: getAmountsOut returns as many amounts as the path has tokens, the
\* first being amountIn and each next the getAmountOut of the one before
\* against the hop's pair, reserveIn being the pair's reserve of path[i]
\* and reserveOut its reserve of path[i+1] whatever the pair's own order.
C6_AmountsAlongPath ==
    (last.op = "getAmountsOut" /\ last.err = "") =>
        /\ Len(last.amounts) = Len(last.path)
        /\ last.amounts[1] = last.amountIn
        /\ \A i \in 1 .. Len(last.path) - 1 :
              LET pair == PairOf(last.path[i], last.path[i + 1])
              IN  last.amounts[i + 1] =
                      AmountOutMath(last.amounts[i],
                                    ReserveOf(last.pre, pair, last.path[i]),
                                    ReserveOf(last.pre, pair, last.path[i + 1]))

\* a two-hop quote whose second hop runs against the pair's own token order
C6_Witness ==
    /\ last.op = "getAmountsOut" /\ last.err = ""
    /\ Len(last.path) = 3
    /\ last.path[2] > last.path[3]
    /\ last.amounts[3] > 0
    /\ ReserveOf(last.pre, PairOf(last.path[2], last.path[3]), last.path[2])
         # ReserveOf(last.pre, PairOf(last.path[2], last.path[3]), last.path[3])

\* C10 as stated: getAmountsOut and every swap entrypoint called with a
\* path of fewer than 2 tokens fail with ValidationError and change nothing.
C10_AsStated ==
    (last.op \in SwapOps \cup {"getAmountsOut"} /\ Len(last.path) < 2) =>
        (ErrorKind(last.err) = "ValidationError" /\ ChainUntouched)

\* C10 amended: such a call always fails and changes nothing; it fails with
\* ValidationError unless it is a swap whose deadline has passed, which
\* fails with ExpiredError, the deadline being checked before the path.
C10_ShortPathRejected ==
    (last.op \in SwapOps \cup {"getAmountsOut"} /\ Len(last.path) < 2) =>
        /\ ChainUntouched
        /\ ErrorKind(last.err) =
              IF last.op \in SwapOps /\ last.time > last.deadline
              THEN "ExpiredError" ELSE "ValidationError"

C10_Witness ==
    /\ last.op = "swapExactTokensForTokens" /\ Len(last.path) = 1
    /\ last.time <= last.deadline /\ last.amountIn > 0
    /\ last.err = "ROUTER: PATH" /\ ChainUntouched

---------------------------------------------------------------------------
(* Quotes along a path, under SpecView *)

\* hop i of a path runs through a registered pair
HopRegistered(st, path, i) ==
    /\ path[i] # path[i + 1]
    /\ PairOf(path[i], path[i + 1]) \in st.pairs

\* ... both of whose reserves are positive
HopLive(st, path, i) ==
    /\ HopRegistered(st, path, i)
    /\ ReserveOf(st, PairOf(path[i], path[i + 1]), path[i]) > 0
    /\ ReserveOf(st, PairOf(path[i], path[i + 1]), path[i + 1]) > 0

\* ... one of whose reserves is zero
HopDry(st, path, i) == HopRegistered(st, path, i) /\ ~HopLive(st, path, i)

\* ... both of whose reserves are zero
HopEmpty(st, path, i) ==
    /\ HopRegistered(st, path, i)
    /\ st.reserves[PairOf(path[i], path[i + 1])] = <<0, 0>>

\* the first dry hop of a path whose earlier hops are all live, if there is one
FirstDryHop(st, path) ==
    {k \in 1 .. Len(path) - 1 :
        HopDry(st, path, k) /\ \A j \in 1 .. k - 1 : HopLive(st, path, j)}

\* the amount that reaches token i of the path through live hops
RECURSIVE Arriving(_, _, _, _)
Arriving(st, path, amountIn, i) ==
    IF i = 1 THEN amountIn
    ELSE LET a == Arriving(st, path, amountIn, i - 1)
             pair == PairOf(path[i - 1], path[i])
         IN  IF a = 0 THEN 0
             ELSE AmountOutMath(a, ReserveOf(st, pair, path[i - 1]),
                                ReserveOf(st, pair, path[i]))

\* C11 as stated: for amountIn > 0 and a path of at least 2 tokens, each hop
\* through a registered pair, getAmountsOut fails with LiquidityError
\* whenever some hop's pair has zero reserves, whichever hop it is.
C11_AsStated ==
    (/\ last.op = "getAmountsOut"
     /\ last.amountIn > 0
     /\ Len(last.path) >= 2
     /\ \A i \in 1 .. Len(last.path) - 1 : HopRegistered(last.pre, last.path, i)
     /\ \E i \in 1 .. Len(last.path) - 1 : HopEmpty(last.pre, last.path, i)) =>
        ErrorKind(last.err) = "LiquidityError"

\* C11 amended: when the first hop whose pair has a zero reserve comes after
\* hops with positive reserves only, getAmountsOut fails at that hop: with
\* LiquidityError when the amount that reaches it is positive (always so at
\* the first hop), with ValidationError when the earlier hops have rounded
\* the amount down to 0.
C11_DryHopFails ==
    (last.op = "getAmountsOut" /\ last.amountIn > 0 /\ Len(last.path) >= 2) =>
        \A k \in FirstDryHop(last.pre, last.path) :
            /\ k = 1 => ErrorKind(last.err) = "LiquidityError"
            /\ ErrorKind(last.err) =
                  IF Arriving(last.pre, last.path, last.amountIn, k) > 0
                  THEN "LiquidityError" ELSE "ValidationError"

\* a positive amount reaches a dry second hop
C11_Witness ==
    /\ last.op = "getAmountsOut" /\ last.amountIn > 0 /\ Len(last.path) = 3
    /\ 2 \in FirstDryHop(last.pre, last.path)
    /\ Arriving(last.pre, last.path, last.amountIn, 2) > 0
    /\ last.err = "LIB: INSUFFICIENT_LIQUIDITY"

\* the amounts a quote is compared at
QuoteAmounts == 1 .. MaxAmt + MaxLibAmt

\* the answer of getAmountsOut for the latest call's path in the state before
\* it: the call's own answer for its own amountIn
QuoteAt(amountIn) ==
    IF amountIn = last.amountIn
    THEN [err |-> last.err, amounts |-> last.amounts]
    ELSE getAmountsOut(last.pre, amountIn, last.path)

\* C12: on one path and one state of the reserves, amountIn1 <= amountIn2
\* and both calls of getAmountsOut succeeding, every amount of the first
\* answer is at most the corresponding amount of the second.
C12_QuoteMonotone ==
    last.op = "getAmountsOut" =>
        \A amountIn1 \in QuoteAmounts, amountIn2 \in QuoteAmounts :
            (/\ amountIn1 <= amountIn2
             /\ QuoteAt(amountIn1).err = ""
             /\ QuoteAt(amountIn2).err = "") =>
                \A i \in 1 .. Len(last.path) :
                    QuoteAt(amountIn1).amounts[i] <= QuoteAt(amountIn2).amounts[i]

\* a two-hop quote that a larger input improves at its far end, and a larger
\* one still leaves as it is
C12_Witness ==
    /\ last.op = "getAmountsOut" /\ last.err = "" /\ Len(last.path) = 3
    /\ \E amountIn2 \in QuoteAmounts :
          /\ amountIn2 > last.amountIn
          /\ QuoteAt(amountIn2).err = ""
          /\ QuoteAt(amountIn2).amounts[3] > last.amounts[3]
    /\ \E amountIn2 \in QuoteAmounts :
          /\ amountIn2 > last.amountIn
          /\ QuoteAt(amountIn2).err = ""
          /\ QuoteAt(amountIn2).amounts[3] = last.amounts[3]

---------------------------------------------------------------------------
(* Further properties of the router's transactions, under Spec *)

\* the latest call is a native-input swap whose path does not start at WETH,
\* or a native-output swap whose path does not end there
WrongNativeEnd ==
    \/ /\ last.op = "swapExactETHForTokens"
       /\ (Len(last.path) = 0 \/ last.path[1] # WETH)
    \/ /\ last.op = "swapExactTokensForETH"
       /\ (Len(last.path) = 0 \/ last.path[Len(last.path)] # WETH)

\* C13 as stated: swapExactETHForTokens fails with ValidationError unless
\* path[0] is WETH and swapExactTokensForETH unless path[last] is WETH, before
\* any quote, transfer, wrap or pair call.
C13_AsStated ==
    WrongNativeEnd =>
        /\ ErrorKind(last.err) = "ValidationError"
        /\ last.trace = <<>> /\ last.amounts = <<>>

\* C13 amended: such a call fails before any quote, transfer, wrap or pair
\* call; with ValidationError when its deadline has not passed, and with
\* ExpiredError when it has, the deadline being checked before the path.
C13_NativeEndRequired ==
    WrongNativeEnd =>
        /\ last.trace = <<>> /\ last.amounts = <<>>
        /\ ChainUntouched
        /\ ErrorKind(last.err) =
              IF last.time > last.deadline THEN "ExpiredError" ELSE "ValidationError"

\* a native-input swap along a path that an existing pool would serve, refused
\* for its first token alone
C13_Witness ==
    /\ last.op = "swapExactETHForTokens"
    /\ Len(last.path) = 2 /\ last.path[1] # WETH
    /\ last.time <= last.deadline /\ last.value > 0 /\ last.amountOutMin = 0
    /\ QuoteBefore.err = "" /\ QuoteBefore.amounts[2] > 0
    /\ last.err = "ROUTER: PATH" /\ last.trace = <<>>

\* the pair swap calls the latest call issued, in order
SwapCalls ==
    LET IsSwap(e) == e.call = "swap" IN SelectSeq(last.trace, IsSwap)

\* where the latest swap's last hop has to pay
FinalDestination ==
    IF last.op = "swapExactTokensForETH" THEN Router ELSE last.to

\* C14: in the settlement of a path of n tokens each hop instructs the pair
\* of (path[i], path[i+1]) to send amounts[i+1]: to the pair of the next hop
\* for every hop but the last, to the final destination for the last, which
\* is the caller's recipient for token->token and native->token swaps; an
\* intermediate amount goes to neither the caller, the recipient nor the
\* router.
C14_HopDestinations ==
    (last.op \in SwapOps /\ last.err = "") =>
        /\ Len(SwapCalls) = Len(last.path) - 1
        /\ \A i \in 1 .. Len(last.path) - 1 :
              /\ SwapCalls[i].tgt = PairOf(last.path[i], last.path[i + 1])
              /\ SwapCalls[i].x + SwapCalls[i].y = last.amounts[i + 1]
              /\ i < Len(last.path) - 1 =>
                    /\ SwapCalls[i].to = PairOf(last.path[i + 1], last.path[i + 2])
                    /\ SwapCalls[i].to \notin {Alice, Router, last.to}
              /\ i = Len(last.path) - 1 => SwapCalls[i].to = FinalDestination
        /\ last.op # "swapExactTokensForETH" => FinalDestination = last.to

\* a settled swap through two different pools
C14_Witness ==
    /\ last.op = "swapExactTokensForTokens" /\ last.err = ""
    /\ Len(last.path) = 3 /\ last.path[1] # last.path[3]
    /\ last.amounts[2] > 0 /\ last.amounts[3] > 0
    /\ SwapCalls[1].to = PairOf(last.path[2], last.path[3])
    /\ SwapCalls[2].to = last.to
    /\ bal[last.path[3]][last.to] = last.pre.bal[last.path[3]][last.to] + last.amounts[3]

\* the calls of one kind the latest call issued, in order
CallsOf(kind) ==
    LET IsKind(e) == e.call = kind IN SelectSeq(last.trace, IsKind)

\* C15: a successful swapExactTokensForETH has its last hop release
\* amounts[last] of WETH to the router, unwraps exactly amounts[last] and
\* pays exactly amounts[last] of native asset to `to`, once; the recipient's
\* native balance rises by exactly that, the caller's does not change and
\* the router keeps neither WETH nor native asset.
C15_NativeOutExact ==
    (last.op = "swapExactTokensForETH" /\ last.err = "") =>
        LET n == Len(last.path)
            out == last.amounts[n]
        IN  /\ SwapCalls[n - 1].to = Router
            /\ SwapCalls[n - 1].x + SwapCalls[n - 1].y = out
            /\ Len(CallsOf("withdraw")) = 1 /\ CallsOf("withdraw")[1].x = out
            /\ Len(CallsOf("send")) = 1
            /\ CallsOf("send")[1].to = last.to /\ CallsOf("send")[1].x = out
            /\ last.trace[Len(last.trace)].call = "send"
            /\ last.trace[Len(last.trace) - 1].call = "withdraw"
            /\ eth[last.to] = last.pre.eth[last.to] + out
            /\ eth[Alice] = last.pre.eth[Alice]
            /\ eth[Router] = last.pre.eth[Router]
            /\ bal[WETH][Router] = last.pre.bal[WETH][Router]

\* a swap to native that pays a positive amount to a recipient other than
\* the caller
C15_Witness ==
    /\ last.op = "swapExactTokensForETH" /\ last.err = ""
    /\ last.amounts[Len(last.path)] > 0
    /\ eth[last.to] = last.pre.eth[last.to] + last.amounts[Len(last.path)]
    /\ CallsOf("send")[1].x = last.amounts[Len(last.path)]
    /\ last.to # Alice

---------------------------------------------------------------------------
(* Properties of the liquidity entrypoints, under SpecLiquidity *)

\* the reserves getReserves gives the latest liquidity call: those of the
\* pair of (tokenA, tokenB) before the call, zero for a pair not yet there
ReserveBefore(token) ==
    IF PairOf(last.tokenA, last.tokenB) \in last.pre.pairs
    THEN ReserveOf(last.pre, PairOf(last.tokenA, last.tokenB), token)
    ELSE 0

\* the latest call is a liquidity call for two different tokens that finds
\* both reserves zero
Bootstrap ==
    /\ last.op \in LiquidityOps
    /\ last.tokenA # last.tokenB
    /\ ReserveBefore(last.tokenA) = 0 /\ ReserveBefore(last.tokenB) = 0

\* C16: addLiquidity on a pair whose reserves are both zero, created by the
\* call or there before it, asks the caller for exactly amountADesired and
\* amountBDesired; it can fail only in a transfer, and when it succeeds it
\* returns (amountADesired, amountBDesired) and the pair holds exactly
\* them.  Reserves (0, 0) and desired (100000, 500) give (100000, 500).
C16_BootstrapAsDesired ==
    /\ OptimalAmounts(0, 0, 100000, 500) =
           [err |-> "", amountA |-> 100000, amountB |-> 500]
    /\ (last.op = "addLiquidity" /\ Bootstrap) =>
          LET pair == PairOf(last.tokenA, last.tokenB)
              asked == CallsOf("transferFrom")
          IN  /\ Len(asked) >= 1
              /\ asked[1].tgt = last.tokenA /\ asked[1].from = Alice
              /\ asked[1].to = pair /\ asked[1].x = last.amountADesired
              /\ Len(asked) >= 2 =>
                    /\ asked[2].tgt = last.tokenB /\ asked[2].from = Alice
                    /\ asked[2].to = pair /\ asked[2].x = last.amountBDesired
              /\ last.err # "" => ErrorKind(last.err) = "TransferError"
              /\ last.err = "" =>
                    /\ last.amountA = last.amountADesired
                    /\ last.amountB = last.amountBDesired
                    /\ Len(asked) = 2
                    /\ ReserveOf(Cur, pair, last.tokenA) = last.amountADesired
                    /\ ReserveOf(Cur, pair, last.tokenB) = last.amountBDesired

\* a first deposit into a pair that an earlier call had registered and left
\* empty
C16_Witness ==
    /\ last.op = "addLiquidity" /\ Bootstrap /\ last.err = ""
    /\ PairOf(last.tokenA, last.tokenB) \in last.pre.pairs
    /\ last.amountADesired > 0 /\ last.amountBDesired > 0
    /\ last.amountADesired # last.amountBDesired
    /\ last.amountA = last.amountADesired /\ last.amountB = last.amountBDesired

\* the latest call is a liquidity call that finds both reserves positive
Proportional ==
    /\ last.op \in LiquidityOps
    /\ last.tokenA # last.tokenB
    /\ ReserveBefore(last.tokenA) > 0 /\ ReserveBefore(last.tokenB) > 0

\* floor(amount * reserveTo / reserveFrom)
Floor(amount, reserveFrom, reserveTo) == (amount * reserveTo) \div reserveFrom

\* the latest call's amountBOptimal and amountAOptimal
BOptimal == Floor(last.amountADesired, ReserveBefore(last.tokenA),
                  ReserveBefore(last.tokenB))
AOptimal == Floor(last.amountBDesired, ReserveBefore(last.tokenB),
                  ReserveBefore(last.tokenA))

\* C17: addLiquidity on a pair with positive reserves (reserveA, reserveB)
\* that completes returns (amountADesired, floor(amountADesired * reserveB /
\* reserveA)) when that floor is at most amountBDesired, and otherwise
\* (floor(amountBDesired * reserveA / reserveB), amountBDesired); those are
\* the amounts it asks the caller for.  Reserves (1000, 1000) and desired
\* (200, 180) give (180, 180).
C17_OptimalRatio ==
    /\ OptimalAmounts(1000, 1000, 200, 180) =
           [err |-> "", amountA |-> 180, amountB |-> 180]
    /\ (last.op = "addLiquidity" /\ Proportional /\ last.err = "") =>
          LET asked == CallsOf("transferFrom")
          IN  /\ Len(asked) = 2
              /\ asked[1].x = last.amountA /\ asked[2].x = last.amountB
              /\ BOptimal <= last.amountBDesired =>
                    (last.amountA = last.amountADesired /\ last.amountB = BOptimal)
              /\ BOptimal > last.amountBDesired =>
                    (last.amountA = AOptimal /\ last.amountB = last.amountBDesired)

\* the second branch taken: B's optimal amount above the desired one
C17_Witness ==
    /\ last.op = "addLiquidity" /\ Proportional /\ last.err = ""
    /\ BOptimal > last.amountBDesired
    /\ last.amountA = AOptimal /\ last.amountA > 0
    /\ last.amountA < last.amountADesired
    /\ last.amountB = last.amountBDesired

\* C18: a liquidity call that succeeds deposits at most the desired amounts,
\* amountA <= amountADesired and amountB <= amountBDesired (for
\* addLiquidityETH amountToken <= amountTokenDesired and amountETH <= the
\* native value sent), whichever branch chose them; what it asks the caller
\* or wraps is those amounts.
C18_WithinDesired ==
    (last.op \in LiquidityOps /\ last.err = "") =>
        /\ last.amountA <= last.amountADesired
        /\ last.amountB <= last.amountBDesired
        /\ last.op = "addLiquidityETH" => last.amountBDesired = last.value
        /\ CallsOf("transferFrom")[1].x = last.amountA
        /\ last.op = "addLiquidity" => CallsOf("transferFrom")[2].x = last.amountB
        /\ last.op = "addLiquidityETH" => CallsOf("deposit")[1].x = last.amountB
        /\ Bootstrap \/ Proportional

\* a deposit with native asset that takes less of it than was sent
C18_Witness ==
    /\ last.op = "addLiquidityETH" /\ Proportional /\ last.err = ""
    /\ last.amountA > 0 /\ last.amountB > 0
    /\ last.amountB < last.value

\* C19: an addLiquidity that succeeds outside the bootstrap branch, with
\* reserves (reserveA, reserveB), deposits in the pool's ratio up to one unit
\* of floor rounding: amountB * reserveA <= amountA * reserveB <
\* (amountB + 1) * reserveA, or amountA * reserveB <= amountB * reserveA <
\* (amountA + 1) * reserveB.
C19_RatioPreserved ==
    (last.op = "addLiquidity" /\ ~Bootstrap /\ last.err = "") =>
        LET reserveA == ReserveBefore(last.tokenA)
            reserveB == ReserveBefore(last.tokenB)
            amountA == last.amountA
            amountB == last.amountB
        IN  \/ /\ amountB * reserveA <= amountA * reserveB
               /\ amountA * reserveB < (amountB + 1) * reserveA
            \/ /\ amountA * reserveB <= amountB * reserveA
               /\ amountB * reserveA < (amountA + 1) * reserveB

\* a deposit outside the bootstrap branch whose amounts are rounded: the
\* ratio is kept only up to the unit
C19_Witness ==
    /\ last.op = "addLiquidity" /\ ~Bootstrap /\ last.err = ""
    /\ last.amountA > 0 /\ last.amountB > 0
    /\ last.amountB * ReserveBefore(last.tokenA)
          # last.amountA * ReserveBefore(last.tokenB)

\* C20: a successful addLiquidityETH wraps exactly amountETH, sends exactly
\* amountETH of WETH to the pair, and refunds exactly value - amountETH to
\* the caller when that is positive and nothing otherwise; amountETH is
\* chosen as addLiquidity chooses amountB, the native value sent in the
\* place of amountBDesired. The caller ends amountETH of native asset
\* poorer and the router keeps nothing.
C20_NativeDeposit ==
    (last.op = "addLiquidityETH" /\ last.err = "") =>
        LET amountETH == last.amountB
            pair == PairOf(last.tokenA, WETH)
            refund == last.value - amountETH
        IN  /\ last.tokenB = WETH /\ last.amountBDesired = last.value
            /\ Bootstrap \/ Proportional
            /\ Bootstrap => (last.amountA = last.amountADesired /\ amountETH = last.value)
            /\ (Proportional /\ BOptimal <= last.value) =>
                   (last.amountA = last.amountADesired /\ amountETH = BOptimal)
            /\ (Proportional /\ BOptimal > last.value) =>
                   (last.amountA = AOptimal /\ amountETH = last.value)
            /\ Len(CallsOf("deposit")) = 1 /\ CallsOf("deposit")[1].x = amountETH
            /\ Len(CallsOf("transfer")) = 1
            /\ CallsOf("transfer")[1].tgt = WETH
            /\ CallsOf("transfer")[1].from = Router
            /\ CallsOf("transfer")[1].to = pair
            /\ CallsOf("transfer")[1].x = amountETH
            /\ refund >= 0
            /\ refund > 0 => /\ Len(CallsOf("send")) = 1
                             /\ CallsOf("send")[1].to = Alice
                             /\ CallsOf("send")[1].x = refund
                             /\ last.trace[Len(last.trace)].call = "send"
            /\ refund = 0 => Len(CallsOf("send")) = 0
            /\ eth[Alice] = last.pre.eth[Alice] - amountETH
            /\ eth[Router] = last.pre.eth[Router]
            /\ bal[WETH][Router] = last.pre.bal[WETH][Router]
            /\ bal[WETH][pair] = (IF pair \in last.pre.pairs
                                  THEN last.pre.bal[WETH][pair] ELSE 0) + amountETH

\* a deposit with native asset that wraps a positive amount and refunds the
\* rest of what was sent
C20_Witness ==
    /\ last.op = "addLiquidityETH" /\ last.err = ""
    /\ last.amountB > 0 /\ last.value > last.amountB
    /\ CallsOf("deposit")[1].x = last.amountB
    /\ Len(CallsOf("send")) = 1
    /\ CallsOf("send")[1].x = last.value - last.amountB
    /\ eth[Alice] = last.pre.eth[Alice] - last.amountB

---------------------------------------------------------------------------
(* Pair resolution, under SpecLiquidity: _ensurePair on the chains that a    *)
(* deployment and one or two liquidity calls leave behind.                   *)

\* _ensurePair(tokenA, tokenB) in the current chain, outside any call
Resolve(tokenA, tokenB) == _ensurePair(Ctx(Cur), tokenA, tokenB)

\* the registered pairs of the unordered token pair {tokenA, tokenB}
PairsFor(st, tokenA, tokenB) ==
    {p \in st.pairs : {PairToken0(p), PairToken1(p)} = {tokenA, tokenB}}

\* the latest call resolved a pair that was registered before it, its tokens
\* given against the canonical order
ResolvedExisting ==
    /\ last.op \in LiquidityOps /\ last.err = ""
    /\ last.tokenA > last.tokenB
    /\ PairOf(last.tokenA, last.tokenB) \in last.pre.pairs

\* C21: resolving (A, B) and (B, A), in any order and any number of times,
\* yields the same pair identifier; at most one pair exists per unordered
\* token pair; and resolving a pair, creating it with zero reserves when it
\* is absent, changes no reserve of an existing pair (nor any balance).  A
\* liquidity call creates its pair exactly when it was not registered.
C21_PairResolution ==
    /\ \A tokenA \in Tokens, tokenB \in Tokens :
          tokenA # tokenB =>
            LET ab == Resolve(tokenA, tokenB)
                ba == Resolve(tokenB, tokenA)
                id == FactoryGetPair(ab.st, tokenA, tokenB)
            IN  /\ ab.err = "" /\ ba.err = ""
                /\ ab.st = ba.st
                /\ id # ZERO
                /\ FactoryGetPair(ab.st, tokenB, tokenA) = id
                /\ FactoryGetPair(ba.st, tokenA, tokenB) = id
                /\ _ensurePair(ab, tokenB, tokenA) = ab
                /\ _ensurePair(ab, tokenA, tokenB) = ab
                /\ ab.st.pairs = pairs \cup {id}
                /\ Cardinality(PairsFor(ab.st, tokenA, tokenB)) = 1
                /\ Cardinality(PairsFor(Cur, tokenA, tokenB)) <= 1
                /\ \A p \in pairs : ab.st.reserves[p] = reserves[p]
                /\ id \notin pairs => ab.st.reserves[id] = <<0, 0>>
                /\ ab.st.bal = bal /\ ab.st.eth = eth
                /\ Len(ab.trace) = (IF id \in pairs THEN 0 ELSE 1)
    /\ (last.op \in LiquidityOps /\ last.err = "") =>
          LET id == PairOf(last.tokenA, last.tokenB)
          IN  /\ pairs = last.pre.pairs \cup {id}
              /\ Len(CallsOf("createPair")) = (IF id \in last.pre.pairs THEN 0 ELSE 1)
              /\ \A p \in last.pre.pairs \ {id} : reserves[p] = last.pre.reserves[p]

\* a deposit, its tokens given in the order (B, A), into the pair that a
\* deposit of (A, B) registered: found, not created again
C21_Witness ==
    /\ ResolvedExisting
    /\ Len(CallsOf("createPair")) = 0
    /\ pairs = last.pre.pairs
    /\ Cardinality(pairs) >= 2
    /\ Resolve(last.tokenB, last.tokenA).st = Cur

---------------------------------------------------------------------------
(* Identical tokens, under Spec *)

\* the hops of a path that join a token to itself
IdenticalHops(path) == {k \in 1 .. Len(path) - 1 : path[k] = path[k + 1]}

\* the latest call works along a path and gets as far as a hop that joins a
\* token to itself: it passes the entrypoint's own checks, and every earlier
\* hop runs through a pool with positive reserves and is reached by a
\* positive amount
ReachesIdenticalHop ==
    /\ last.op \in SwapOps \cup {"getAmountsOut"}
    /\ last.op \in SwapOps => (last.time <= last.deadline /\ PathValid(last.op, last.path))
    /\ \E k \in IdenticalHops(last.path) :
          \A j \in 1 .. k - 1 :
              /\ HopLive(last.pre, last.path, j)
              /\ Arriving(last.pre, last.path, last.amountIn, j) > 0

\* C22: an operation that has to resolve a pair for two identical tokens,
\* addLiquidity with tokenA = tokenB, addLiquidityETH with token = WETH, or a
\* call along a path that gets as far as a hop with path[i] = path[i+1],
\* fails with ValidationError and changes nothing; no pair of a token with
\* itself is ever registered.
C22_IdenticalTokens ==
    /\ (last.op \in LiquidityOps /\ last.tokenA = last.tokenB) =>
          (ErrorKind(last.err) = "ValidationError" /\ ChainUntouched)
    /\ ReachesIdenticalHop =>
          (ErrorKind(last.err) = "ValidationError" /\ ChainUntouched)
    /\ \A p \in pairs : PairToken0(p) # PairToken1(p)
    /\ \A t \in Tokens : FactoryGetPair(Cur, t, t) = ZERO

\* a swap whose second hop joins a token to itself, the first hop quoted
C22_Witness ==
    /\ last.op \in SwapOps /\ ReachesIdenticalHop
    /\ Len(last.path) = 3
    /\ IdenticalHops(last.path) = {2}
    /\ last.err = "LIB: IDENTICAL"

---------------------------------------------------------------------------
(* The view entrypoint leaves the chain alone, under SpecView *)

\* the hops of a path, between two different tokens, whose pair is not
\* registered, and that the quote gets as far as
UnregisteredHops(st, path, amountIn) ==
    {k \in 1 .. Len(path) - 1 :
        /\ path[k] # path[k + 1]
        /\ PairOf(path[k], path[k + 1]) \notin st.pairs
        /\ \A j \in 1 .. k - 1 :
              HopLive(st, path, j) /\ Arriving(st, path, amountIn, j) > 0}

\* C23: getAmountsOut never changes state: after any call, successful or
\* failing, the reserves of every pair, the registry and all balances are
\* as before and no external state-changing call was issued; a hop whose
\* pair is not registered makes the call fail (LIB: PAIR_NOT_FOUND) and the
\* pair is still not registered afterwards.
C23_ViewChangesNothing ==
    last.op = "getAmountsOut" =>
        /\ pairs = last.pre.pairs
        /\ reserves = last.pre.reserves
        /\ bal = last.pre.bal
        /\ eth = last.pre.eth
        /\ last.trace = <<>>
        /\ \A k \in UnregisteredHops(last.pre, last.path, last.amountIn) :
              /\ last.err = "LIB: PAIR_NOT_FOUND"
              /\ last.amounts = <<>>
              /\ PairOf(last.path[k], last.path[k + 1]) \notin pairs
              /\ reserves[PairOf(last.path[k], last.path[k + 1])] = <<0, 0>>

\* a quote through a pool and then over a pair nobody registered
C23_Witness ==
    /\ last.op = "getAmountsOut"
    /\ Len(last.path) = 3
    /\ UnregisteredHops(last.pre, last.path, last.amountIn) = {2}
    /\ last.err = "LIB: PAIR_NOT_FOUND"
    /\ Cur = last.pre

---------------------------------------------------------------------------
(* The approval step of the web application's swap flow, under SpecUi *)

\* the swap transaction has just been submitted
SwapSubmitted == ui.pc = "swapSent"

---------------------------------------------------------------------------
(* The order of the steps inside a swap, under Spec *)

\* the quote of the latest call succeeded and met the caller's minimum
SlippagePassed ==
    /\ QuoteBefore.err = ""
    /\ QuoteBefore.amounts[Len(QuoteBefore.amounts)] >= last.amountOutMin

\* the latest call is a swap that asked the factory to create its first pair
CreatedFirstPair ==
    /\ last.op \in SwapOps
    /\ Len(last.trace) >= 1
    /\ last.trace[1].call = "createPair"

\* C25 as stated: in every swap entrypoint no asset transfer, wrap, pair
\* creation or pair swap call is issued before amounts[last] >= amountOutMin
\* has been established.
C25_AsStated ==
    (last.op \in SwapOps /\ last.trace # <<>>) => SlippagePassed

\* C25 amended: no asset transfer, wrap or pair swap call is issued before
\* amounts[last] >= amountOutMin has been established.  The one call that
\* can come earlier is the factory's createPair, for a first pair that is
\* not registered; the quote over the pair just created then fails, nothing
\* else is issued and the transaction reverts with the chain as it was.
C25_NothingBeforeSlippage ==
    last.op \in SwapOps =>
        /\ \A i \in 1 .. Len(last.trace) :
              \/ SlippagePassed
              \/ i = 1 /\ last.trace[i].call = "createPair"
        /\ \A i \in 2 .. Len(last.trace) : last.trace[i].call # "createPair"
        /\ CreatedFirstPair =>
              /\ Len(last.trace) = 1
              /\ PairOf(last.path[1], last.path[2]) \notin last.pre.pairs
              /\ last.err # "" /\ last.amounts = <<>>
              /\ ChainUntouched
        /\ ErrorKind(last.err) = "SlippageError" =>
              (last.trace = <<>> /\ ChainUntouched)

\* a swap refused for its output alone: quoted, below the minimum, and not
\* one call issued
C25_Witness ==
    /\ last.op \in SwapOps
    /\ last.err = "ROUTER: INSUFFICIENT_OUTPUT"
    /\ QuoteBefore.err = ""
    /\ QuoteBefore.amounts[Len(QuoteBefore.amounts)] > 0
    /\ QuoteBefore.amounts[Len(QuoteBefore.amounts)] < last.amountOutMin
    /\ last.trace = <<>> /\ ChainUntouched

---------------------------------------------------------------------------
(* The life of a swap request, under SpecRequest *)

\* the steps a request may take
PhaseSteps ==
    {<<"none", "Pending">>, <<"Pending", "Validated">>, <<"Validated", "Quoted">>,
     <<"Quoted", "Settled">>, <<"Pending", "Failed">>, <<"Validated", "Failed">>,
     <<"Quoted", "Failed">>}

\* the request has passed the entrypoint's requires on deadline and path
PassedValidation == last.time <= last.deadline /\ PathValid(last.op, last.path)

\* what holds of a request in each state
PhaseSound ==
    /\ last.phase \in Phases
    /\ last.phase = "none" <=> last.op = "none"
    /\ last.phase \in {"Validated", "Quoted", "Settled"} => PassedValidation
    /\ last.phase \in {"Quoted", "Settled"} => SlippagePassed
    /\ last.phase \in {"Pending", "Validated", "Quoted", "Settled"} => last.err = ""
    /\ last.phase = "Failed" => last.err # ""
    /\ last.phase # "none" =>
          /\ last.quoted = Quote(last.pre, last)
          /\ last.outcome = Run(last.pre, last)
    /\ last.phase \in Terminal =>
          /\ last.err = Run(last.pre, last).err
          /\ Cur = Commit(last.pre, Run(last.pre, last))
    /\ last.phase \notin {"none", "Settled"} => ChainUntouched

\* C26: every swap request moves through Pending -> Validated -> Quoted ->
\* Settled in that order, or ends in Failed from any earlier state; it
\* always reaches one of the two terminal states, never leaves a terminal
\* state (it can only be handed back and forgotten), and never reaches
\* Settled without having passed the validation checks and the slippage
\* check.
C26_RequestLifecycle ==
    /\ []PhaseSound
    /\ [][\/ last' = last
          \/ last.phase \in Terminal /\ last' = NoCall
          \/ /\ <<last.phase, last'.phase>> \in PhaseSteps
             /\ last.phase # "none" =>
                   /\ last'.op = last.op /\ last'.path = last.path
                   /\ last'.amountIn = last.amountIn
                   /\ last'.amountOutMin = last.amountOutMin
                   /\ last'.deadline = last.deadline /\ last'.time = last.time]_vars
    /\ (last.phase \in {"Pending", "Validated", "Quoted"})
          ~> (last.phase \in Terminal)

\* a request settled
C26_Witness ==
    /\ last.op \in SwapOps /\ last.phase = "Settled"
    /\ PassedValidation /\ SlippagePassed
    /\ last.amounts[Len(last.amounts)] > 0
    /\ ~ChainUntouched


---------------------------------------------------------------------------
(* The order of the calls a swap issues *)

\* the calls by which the latest swap hands its input to the first pair
Funding ==
    LET first == PairOf(last.path[1], last.path[2])
    IN  IF last.op = "swapExactETHForTokens"
        THEN <<Entry("deposit", WETH, Router, Router, last.amounts[1], 0),
               Entry("transfer", WETH, Router, first, last.amounts[1], 0)>>
        ELSE <<Entry("transferFrom", last.path[1], Alice, first, last.amounts[1], 0)>>

\* the positions in the latest call's trace that are pair swap calls
SwapPositions == {k \in 1 .. Len(last.trace) : last.trace[k].call = "swap"}

\* C27: in a successful swap amounts[0] is handed to the first pair
\* (transferFrom the caller, or a wrap of exactly amounts[0] followed by a
\* transfer for native input) before any pair swap call, and the pair swap
\* calls then follow, exactly one per hop, in path order.
C27_FundingThenHops ==
    (last.op \in SwapOps /\ last.err = "") =>
        LET n == Len(Funding)
            hops == Len(last.path) - 1
        IN  /\ last.amounts[1] = last.amountIn
            /\ Len(last.trace) >= n + hops
            /\ SubSeq(last.trace, 1, n) = Funding
            /\ SwapPositions = n + 1 .. n + hops
            /\ \A i \in 1 .. hops :
                  last.trace[n + i].tgt = PairOf(last.path[i], last.path[i + 1])

\* a native-input swap over two hops that succeeded (the seeded pools all
\* hold WETH, so its second hop leads back through the first hop's pair)
C27_Witness ==
    /\ last.op = "swapExactETHForTokens" /\ last.err = ""
    /\ Len(last.path) = 3 /\ last.amounts[1] > 0
    /\ Len(last.trace) = 4
    /\ last.trace[1].call = "deposit" /\ last.trace[2].call = "transfer"
    /\ last.trace[3].call = "swap" /\ last.trace[4].call = "swap"
    /\ last.trace[1].x = last.value /\ last.trace[2].x = last.value

---------------------------------------------------------------------------
(* The side of the pair each hop draws down *)

\* what the i-th pair swap call of the latest swap asks of the side of `token`
AskedOf(i, token) ==
    IF token = PairToken0(SwapCalls[i].tgt) THEN SwapCalls[i].x ELSE SwapCalls[i].y

\* C28: for every hop i of a settlement the pair swap call carries
\* amounts[i+1] on the side of the output token path[i+1] in the canonical
\* token order and 0 on the other: (amount0Out, amount1Out) is
\* (0, amounts[i+1]) when path[i] is token0 and (amounts[i+1], 0) when it is
\* token1; nothing is asked of the input token's side.
C28_OutputSide ==
    (last.op \in SwapOps /\ last.err = "") =>
        /\ Len(SwapCalls) = Len(last.path) - 1
        /\ \A i \in 1 .. Len(last.path) - 1 :
              LET input == last.path[i]
                  output == last.path[i + 1]
                  call == SwapCalls[i]
              IN  /\ {PairToken0(call.tgt), PairToken1(call.tgt)} = {input, output}
                  /\ PairToken0(call.tgt) < PairToken1(call.tgt)
                  /\ input = PairToken0(call.tgt) =>
                        <<call.x, call.y>> = <<0, last.amounts[i + 1]>>
                  /\ input = PairToken1(call.tgt) =>
                        <<call.x, call.y>> = <<last.amounts[i + 1], 0>>
                  /\ AskedOf(i, output) = last.amounts[i + 1]
                  /\ AskedOf(i, input) = 0

\* a settled swap of two hops, the first entering on token0's side and the
\* second on token1's, both releasing a positive amount
C28_Witness ==
    /\ last.op \in SwapOps /\ last.err = "" /\ Len(last.path) = 3
    /\ last.path[1] < last.path[2] /\ last.path[2] > last.path[3]
    /\ last.amounts[2] > 0 /\ last.amounts[3] > 0
    /\ <<SwapCalls[1].x, SwapCalls[1].y>> = <<0, last.amounts[2]>>
    /\ <<SwapCalls[2].x, SwapCalls[2].y>> = <<last.amounts[3], 0>>

---------------------------------------------------------------------------
(* The order of the calls a liquidity deposit issues *)

\* the transfer by which the latest liquidity call sends tokenA to the pair
DepositA ==
    Entry("transferFrom", last.tokenA, Alice, PairOf(last.tokenA, last.tokenB),
          last.amountA, 0)

\* the transfer by which it sends tokenB: the caller's tokens, or for
\* addLiquidityETH the WETH the router has just wrapped
DepositB ==
    IF last.op = "addLiquidityETH"
    THEN Entry("transfer", WETH, Router, PairOf(last.tokenA, WETH), last.amountB, 0)
    ELSE Entry("transferFrom", last.tokenB, Alice, PairOf(last.tokenA, last.tokenB),
               last.amountB, 0)

\* the positions in the latest call's trace that hold the entry e
PositionsOf(e) == {k \in 1 .. Len(last.trace) : last.trace[k] = e}

\* the errors of a failed asset transfer in the liquidity entrypoints
TransferErrors ==
    {"ROUTER: TRANSFER_A", "ROUTER: TRANSFER_B", "ROUTER: TRANSFER_TOKEN",
     "ROUTER: WETH_TRANSFER"}

\* C29: in addLiquidity and addLiquidityETH both deposits are sent to the
\* pair before the pair's mint is invoked, mint is invoked exactly once and
\* with the caller's recipient `to`, and the pair then holds the two amounts
\* on top of what it held; when the transfer of either asset fails, the
\* failed transfer is the last call issued and mint is never invoked.
C29_DepositsThenMint ==
    last.op \in LiquidityOps =>
        LET pair == PairOf(last.tokenA, last.tokenB)
            mint == Entry("mint", pair, Router, last.to, 0, 0)
            held(token) == IF pair \in last.pre.pairs THEN last.pre.bal[token][pair] ELSE 0
        IN  /\ last.err = "" =>
                  /\ Len(CallsOf("mint")) = 1
                  /\ \E m \in PositionsOf(mint) :
                        /\ \E a \in PositionsOf(DepositA) : a < m
                        /\ \E b \in PositionsOf(DepositB) : b < m
                  /\ PositionsOf(DepositA) # PositionsOf(DepositB)
                  /\ bal[last.tokenA][pair] = held(last.tokenA) + last.amountA
                  /\ bal[last.tokenB][pair] = held(last.tokenB) + last.amountB
            /\ last.err \in TransferErrors =>
                  /\ Len(CallsOf("mint")) = 0
                  /\ last.trace # <<>>
                  /\ last.trace[Len(last.trace)].call \in {"transferFrom", "transfer"}
                  /\ ChainUntouched

\* a deposit whose first transfer went through and whose second failed
C29_Witness ==
    /\ last.op = "addLiquidity" /\ last.err = "ROUTER: TRANSFER_B"
    /\ Len(last.trace) >= 2
    /\ last.trace[Len(last.trace) - 1].call = "transferFrom"
    /\ last.trace[Len(last.trace) - 1].tgt = last.tokenA
    /\ last.trace[Len(last.trace) - 1].x > 0
    /\ last.trace[Len(last.trace)].tgt = last.tokenB
    /\ Len(CallsOf("mint")) = 0

---------------------------------------------------------------------------
(* A quote over a path that comes back through a pair *)

\* hops i and j of the latest call's path run through the same pair
SamePair(i, j) ==
    PairOf(last.path[i], last.path[i + 1]) = PairOf(last.path[j], last.path[j + 1])

\* what hop j would be quoted had the call let hop i move the pair's reserves
\* first
QuoteAfterHop(i, j) ==
    LET pair == PairOf(last.path[i], last.path[i + 1])
        moved(token) ==
            IF token = last.path[i]
            THEN ReserveOf(last.pre, pair, token) + last.amounts[i]
            ELSE ReserveOf(last.pre, pair, token) - last.amounts[i + 1]
    IN  AmountOutMath(last.amounts[j], moved(last.path[j]), moved(last.path[j + 1]))

\* C30: within one getAmountsOut call no hop is quoted against the effect of
\* an earlier hop: when the path visits the same pair twice (as [A, B, A]
\* does), both hops are quoted against the reserves that pair had when the
\* call began, each with the reserve of its own input token as reserveIn
\* (so the second hop of [A, B, A] with the two reserves of the first
\* exchanged), and the pair's reserves are the same after the call.
C30_SingleShotQuote ==
    (last.op = "getAmountsOut" /\ last.err = "") =>
        \A i \in 1 .. Len(last.path) - 1 : \A j \in i + 1 .. Len(last.path) - 1 :
            SamePair(i, j) =>
                LET pair == PairOf(last.path[i], last.path[i + 1])
                    atStart(token) == ReserveOf(last.pre, pair, token)
                IN  /\ pair \in last.pre.pairs
                    /\ {last.path[j], last.path[j + 1]} = {last.path[i], last.path[i + 1]}
                    /\ last.amounts[i + 1] =
                          AmountOutMath(last.amounts[i], atStart(last.path[i]),
                                        atStart(last.path[i + 1]))
                    /\ last.amounts[j + 1] =
                          AmountOutMath(last.amounts[j], atStart(last.path[j]),
                                        atStart(last.path[j + 1]))
                    /\ last.path[j] = last.path[i + 1] =>
                          last.amounts[j + 1] =
                              AmountOutMath(last.amounts[j], atStart(last.path[i + 1]),
                                            atStart(last.path[i]))
                    /\ reserves[pair] = last.pre.reserves[pair]

\* a quote over [A, B, A] whose second hop would have been quoted otherwise
\* against the reserves the first hop leaves
C30_Witness ==
    /\ last.op = "getAmountsOut" /\ last.err = "" /\ Len(last.path) = 3
    /\ last.path[1] = last.path[3] /\ SamePair(1, 2)
    /\ last.amounts[2] > 0
    /\ QuoteAfterHop(1, 2) # last.amounts[3]

---------------------------------------------------------------------------
(* Requests one after another, under SpecRepeat *)

\* the step is a settled swap followed at once by a successful swap or quote
\* of the same amount over the same path
FollowsSameSwap ==
    /\ last.op \in SwapOps /\ last.err = "" /\ last.phase = "Settled"
    /\ last'.op \in {last.op, "getAmountsOut"} /\ last'.err = ""
    /\ last'.path = last.path /\ last'.amountIn = last.amountIn

\* C31: reserves are not kept from one request to the next: the swap or
\* quote that follows a settled swap is computed hop by hop from the
\* reserves as that swap left them (for a single hop: the reserves it found,
\* plus its input on one side and less its output on the other), so that
\* over one single-hop path successive swaps of the same amount in the same
\* direction never return more than the one before.
C31_FreshReserves ==
    [][FollowsSameSwap =>
          /\ last'.pre = Cur
          /\ last'.amounts[1] = last.amountIn
          /\ \A i \in 1 .. Len(last.path) - 1 :
                LET pair == PairOf(last.path[i], last.path[i + 1])
                IN  last'.amounts[i + 1] =
                        AmountOutMath(last'.amounts[i],
                                      ReserveOf(Cur, pair, last.path[i]),
                                      ReserveOf(Cur, pair, last.path[i + 1]))
          /\ Len(last.path) = 2 =>
                LET pair == PairOf(last.path[1], last.path[2])
                IN  /\ ReserveOf(Cur, pair, last.path[1]) =
                          ReserveOf(last.pre, pair, last.path[1]) + last.amounts[1]
                    /\ ReserveOf(Cur, pair, last.path[2]) =
                          ReserveOf(last.pre, pair, last.path[2]) - last.amounts[2]
                    /\ last'.amounts[2] <= last.amounts[2]]_vars

\* a swap sent a second time and settled with a positive output, after which
\* the same swap would return strictly less
C31_Witness ==
    /\ last.op \in SwapOps /\ last.err = "" /\ nops >= 2
    /\ Len(last.path) = 2 /\ last.amounts[2] > 0
    /\ LET pair == PairOf(last.path[1], last.path[2])
       IN  AmountOutMath(last.amountIn, ReserveOf(Cur, pair, last.path[1]),
                         ReserveOf(Cur, pair, last.path[2])) < last.amounts[2]

---------------------------------------------------------------------------
(* A deposit into a pool with one side empty *)

\* the latest call is a liquidity call that finds exactly one reserve zero
OneSided ==
    /\ last.op \in LiquidityOps
    /\ last.tokenA # last.tokenB
    /\ (ReserveBefore(last.tokenA) = 0) # (ReserveBefore(last.tokenB) = 0)

\* C32: addLiquidity and addLiquidityETH on a pair with exactly one zero
\* reserve are not treated as the first deposit: with both desired amounts
\* positive they fail with LiquidityError, no transfer is asked of anyone
\* and the chain is as it was.
C32_OneSidedRefused ==
    (OneSided /\ last.amountADesired > 0 /\ last.amountBDesired > 0) =>
        /\ last.err = "LIB: INSUFFICIENT_LIQUIDITY"
        /\ ErrorKind(last.err) = "LiquidityError"
        /\ ~Bootstrap
        /\ last.trace = <<>>
        /\ ChainUntouched

\* a deposit with native asset into a pool that holds the token and no WETH
C32_Witness ==
    /\ last.op = "addLiquidityETH" /\ OneSided
    /\ ReserveBefore(last.tokenA) > 0 /\ ReserveBefore(WETH) = 0
    /\ last.amountADesired > 0 /\ last.value > 0
    /\ last.err = "LIB: INSUFFICIENT_LIQUIDITY"

---------------------------------------------------------------------------
(* What a swap returns and what the view would have quoted *)

\* C33: the amounts a successful swap returns are, element by element, what
\* getAmountsOut returns for the same input amount (the native value sent,
\* for swapExactETHForTokens) and the same path in the state just before the
\* swap.
C33_SwapReturnsQuote ==
    (last.op \in SwapOps /\ last.err = "") =>
        LET amountIn == IF last.op = "swapExactETHForTokens" THEN last.value
                        ELSE last.amountIn
            view == getAmountsOut(last.pre, amountIn, last.path)
        IN  /\ view.err = ""
            /\ Len(last.amounts) = Len(view.amounts)
            /\ \A i \in 1 .. Len(view.amounts) : last.amounts[i] = view.amounts[i]
            /\ last.amounts[1] = amountIn

\* a native-input swap over two hops whose amounts are all positive
C33_Witness ==
    /\ last.op = "swapExactETHForTokens" /\ last.err = ""
    /\ Len(last.path) = 3 /\ last.value > 0
    /\ last.amounts[2] > 0 /\ last.amounts[3] > 0
    /\ last.amounts = getAmountsOut(last.pre, last.value, last.path).amounts

---------------------------------------------------------------------------
(* What the router holds, under SpecAnyRecipient *)

\* the router's own holdings: native asset, and WETH and every other token
RouterHolds(st) == <<st.eth[Router], [t \in Tokens |-> st.bal[t][Router]]>>

\* the latest call is a successful swap paying tokens out that names the
\* router itself as the recipient
PaysRouter ==
    /\ last.op \in {"swapExactTokensForTokens", "swapExactETHForTokens"}
    /\ last.err = "" /\ last.to = Router

\* C34 as stated: after any completed router operation, successful or not,
\* the router holds what it held before the call.
C34_AsStated ==
    last.op \in SwapOps \cup LiquidityOps => RouterHolds(Cur) = RouterHolds(last.pre)

\* C34: after any completed router operation, successful or not, the
\* router's native balance is what it was before the call, and so are its
\* balances of WETH and of every token unless the call is a successful
\* token-output swap whose recipient `to` is the router itself: then the
\* router holds amounts[last] more of the output token and nothing else has
\* changed. A native-output swap that names the router as recipient fails.
C34_RouterKeepsNothing ==
    last.op \in SwapOps \cup LiquidityOps =>
        /\ eth[Router] = last.pre.eth[Router]
        /\ ~PaysRouter => RouterHolds(Cur) = RouterHolds(last.pre)
        /\ PaysRouter =>
              \A t \in Tokens :
                  bal[t][Router] = last.pre.bal[t][Router] +
                      (IF t = last.path[Len(last.path)]
                       THEN last.amounts[Len(last.amounts)] ELSE 0)
        /\ (last.op = "swapExactTokensForETH" /\ last.to = Router) => last.err # ""

\* a swap to native asset through the router's hands: the last hop's WETH
\* received, unwrapped and paid out, a positive amount
C34_Witness ==
    /\ last.op = "swapExactTokensForETH" /\ last.err = ""
    /\ last.to # Router /\ last.amounts[Len(last.amounts)] > 0
    /\ Len(CallsOf("withdraw")) = 1
    /\ RouterHolds(Cur) = RouterHolds(last.pre)

---------------------------------------------------------------------------
(* Where the assets of a swap go, under SpecAnyRecipient *)

\* the sum of f over the set S
RECURSIVE SumOver(_, _)
SumOver(f, S) ==
    IF S = {} THEN 0
    ELSE LET x == CHOOSE y \in S : TRUE IN f[x] + SumOver(f, S \ {x})

\* what the latest swap moves into (positive) or out of (negative) holder h's
\* balance of token t: amounts[0] out of the caller's, each hop's input into
\* and output out of the hop's pair, amounts[last] into the recipient's.
\* WETH wrapped for a native input, or unwrapped for a native output, passes
\* through the router and stays with no account.
TokenFlow(t, h) ==
    LET n == Len(last.path)
    IN  (IF h = Alice /\ t = last.path[1] /\ last.op # "swapExactETHForTokens"
         THEN 0 - last.amounts[1] ELSE 0)
        + (IF h \in PairIds THEN NetIn(h, t, n - 1) ELSE 0)
        + (IF h = last.to /\ t = last.path[n] /\ last.op # "swapExactTokensForETH"
           THEN last.amounts[n] ELSE 0)

\* and into or out of account a's native balance
NativeFlow(a) ==
    LET n == Len(last.path)
    IN  CASE last.op = "swapExactETHForTokens" ->
                (IF a = Alice THEN 0 - last.amounts[1] ELSE 0)
                + (IF a = WETH THEN last.amounts[1] ELSE 0)
          [] last.op = "swapExactTokensForETH" ->
                (IF a = last.to THEN last.amounts[n] ELSE 0)
                - (IF a = WETH THEN last.amounts[n] ELSE 0)
          [] OTHER -> 0

\* C35: a successful swap conserves assets. The caller is debited exactly
\* amounts[0] of the input asset, the recipient is credited exactly
\* amounts[last] of the output asset, each pair on the path receives exactly
\* amounts[i] and releases exactly amounts[i+1] on each hop through it, and
\* no other balance changes; so the balances of every token summed over
\* caller, recipient, router and pairs are what they were, WETH rising or
\* falling one for one with the native asset wrapped or unwrapped.
C35_AssetsConserved ==
    (last.op \in SwapOps /\ last.err = "") =>
        /\ \A t \in Tokens : \A h \in Holders :
              bal[t][h] = last.pre.bal[t][h] + TokenFlow(t, h)
        /\ \A a \in NativeHolders : eth[a] = last.pre.eth[a] + NativeFlow(a)
        /\ \A t \in Tokens \ {WETH} :
              SumOver(bal[t], Holders) = SumOver(last.pre.bal[t], Holders)
        /\ SumOver(bal[WETH], Holders) - SumOver(last.pre.bal[WETH], Holders)
              = eth[WETH] - last.pre.eth[WETH]
        /\ SumOver(eth, NativeHolders) = SumOver(last.pre.eth, NativeHolders)
        /\ last.op = "swapExactTokensForTokens" =>
              SumOver(bal[WETH], Holders) = SumOver(last.pre.bal[WETH], Holders)

\* a swap out of a token and back into it with the caller as recipient: one
\* account debited amounts[0] and credited amounts[last] of the same token
C35_Witness ==
    /\ last.op = "swapExactTokensForTokens" /\ last.err = ""
    /\ Len(last.path) = 3 /\ last.path[1] = last.path[3] /\ last.to = Alice
    /\ last.amounts[3] > 0 /\ last.amounts[3] < last.amounts[1]
    /\ bal[last.path[1]][Alice] =
          last.pre.bal[last.path[1]][Alice] - last.amounts[1] + last.amounts[3]

---------------------------------------------------------------------------
(* The pair registry across the router's operations *)

\* the hops of the latest call's path whose pair was not registered before it
MissingHops ==
    {i \in 1 .. Len(last.path) - 1 :
        PairOf(last.path[i], last.path[i + 1]) \notin last.pre.pairs}

\* C36: a swap never leaves a new pair behind. The registry changes only in
\* a step that is a successful addLiquidity or addLiquidityETH, and then by
\* the pair of that call's two tokens; after every swap and every quote it
\* is what it was before; and a swap one of whose hops, the first or a later
\* one, has no registered pair fails.
C36_SwapsRegisterNothing ==
    /\ [](last.op \in SwapOps \cup {"getAmountsOut"} => pairs = last.pre.pairs)
    /\ []((last.op \in SwapOps /\ MissingHops # {}) =>
              (last.err # "" /\ pairs = last.pre.pairs /\ ChainUntouched))
    /\ [][pairs' # pairs =>
              /\ last'.op \in LiquidityOps /\ last'.err = ""
              /\ pairs' = pairs \cup {PairOf(last'.tokenA, last'.tokenB)}]_vars

\* a swap over a first hop with no pair: the pair was created in the course
\* of the call, the quote over it failed, and the registry is as it was
C36_Witness ==
    /\ last.op \in SwapOps /\ 1 \in MissingHops
    /\ last.time <= last.deadline /\ PathValid(last.op, last.path)
    /\ last.amountIn > 0 /\ last.path[1] # last.path[2]
    /\ Len(CallsOf("createPair")) = 1
    /\ last.err = "LIB: INSUFFICIENT_LIQUIDITY"
    /\ PairOf(last.path[1], last.path[2]) \notin pairs

---------------------------------------------------------------------------
(* The quote shown by the web application *)

\* what the router answers now for the inputs of the form
QuoteOfInputs ==
    getAmountsOut(Cur, parseUnits(ui.amountInText).val,
                  QuotePath(ui.tokenIn, ui.tokenOut))

\* C37: a quote response asked for superseded inputs never overwrites the
\* quote state.  Whenever the quote state is 'ready', its path is the one of
\* the tokenIn and tokenOut selected now and its amountOut the last amount
\* the router gives for that path and the amount text entered now; and a
\* response whose request was superseded leaves the quote state as it is.
C37_NoStaleQuote ==
    /\ [](ui.quote.status = "ready" =>
            /\ ~isSameToken(ui.tokenIn, ui.tokenOut)
            /\ parseUnits(ui.amountInText).err = ""
            /\ parseUnits(ui.amountInText).val > 0
            /\ ui.quote.path = QuotePath(ui.tokenIn, ui.tokenOut)
            /\ QuoteOfInputs.err = ""
            /\ ui.quote.amountOut = QuoteOfInputs.amounts[Len(QuoteOfInputs.amounts)])
    /\ [][(\E r \in ui.requests : r.cancelled /\ ui'.requests = ui.requests \ {r})
              => ui'.quote = ui.quote]_vars

\* a quote is ready for the inputs entered now while the request made for
\* the amount entered before, whose answer is another, is still in flight
C37_Witness ==
    /\ ui.quote.status = "ready"
    /\ ui.amountInText = "1"
    /\ ui.tokenIn = Erc20(SeedToken) /\ ui.tokenOut = NATIVE_TOKEN
    /\ \E r \in ui.requests :
          /\ r.cancelled /\ r.amountIn = 2 /\ r.tokenIn = ui.tokenIn
          /\ r.tokenOut = ui.tokenOut
          /\ QuoteResult(r, TRUE).status = "ready"
          /\ QuoteResult(r, TRUE).amountOut # ui.quote.amountOut

---------------------------------------------------------------------------
(* The minimum output sent with a swap *)

\* floor(amountOut * (10000 - slippageBps) / 10000)
FloorMinOut(amountOut, slippageBps) == (amountOut * (10000 - slippageBps)) \div 10000

\* C38 as stated: for every slippage setting that can be entered and every
\* quoted amount, minOut is floor(amountOut * (10000 - slippageBps) / 10000)
\* and lies between 0 and amountOut.
C38_AsStated ==
    lib.fn = "minOut" =>
        /\ lib.val = FloorMinOut(lib.a, lib.b)
        /\ 0 <= lib.val /\ lib.val <= lib.a

\* C38: the setting is never negative and minOut never exceeds amountOut.
\* For a setting of at most 10000 basis points minOut is
\* floor(amountOut * (10000 - slippageBps) / 10000) and lies between 0 and
\* amountOut.  A setting above 10000, which the field accepts, gives a
\* minOut that is never positive, and negative as soon as
\* amountOut * (slippageBps - 10000) reaches 10000.
C38_MinOutBound ==
    lib.fn = "minOut" =>
        /\ lib.b >= 0
        /\ lib.val <= lib.a
        /\ lib.b <= 10000 =>
              /\ lib.val = FloorMinOut(lib.a, lib.b)
              /\ 0 <= lib.val
        /\ lib.b > 10000 =>
              /\ lib.val <= 0
              /\ lib.val < 0 <=> lib.a * (lib.b - 10000) >= 10000

\* 150 entered as the slippage, and the bound for a quote of 200 is -100
C38_Witness ==
    /\ lib.fn = "minOut" /\ lib.b = pctToBps("150") /\ lib.b = 15000
    /\ lib.a = 200 /\ lib.val = -100
    /\ ui.slippageBps = 15000

---------------------------------------------------------------------------
(* The history kept by the web application *)

\* the step in which the receipt of the flow's swap arrives with this status
Mined(status) ==
    /\ ui.pc = "swapSent" /\ ui'.pc = "idle"
    /\ ui'.txStatus = "Success"
    /\ ui'.receipt = [hash |-> ui.flow.hash, status |-> status]

TokenToNative(flow) == flow.tokenIn.kind # "native" /\ flow.tokenOut.kind = "native"

\* C39 as stated: every swap that completes successfully, whatever its
\* kind, is recorded as a new item at the head of the history.
C39_AsStated ==
    [][Mined("success") =>
          /\ ui'.history # <<>>
          /\ Head(ui'.history).txHash = ui.flow.hash]_vars

\* C39: a swap from the native asset to a token or from a token to a token
\* that completes successfully is recorded as a new item at the head of the
\* history, in the component and in the browser's storage, the earlier items
\* following it up to the limit; a swap from a token to the native asset
\* leaves the history as it was.
C39_SwapsRecorded ==
    [][Mined("success") =>
          IF TokenToNative(ui.flow)
          THEN ui'.history = ui.history /\ ui'.stored = ui.stored
          ELSE /\ ui'.history # <<>>
               /\ Head(ui'.history) =
                    [txHash |-> ui.flow.hash,
                     fromSymbol |-> tokenLabel(ui.flow.tokenIn),
                     toSymbol |-> tokenLabel(ui.flow.tokenOut),
                     amountInText |-> ui.flow.amountInText,
                     amountOutText |-> ui.flow.amountOutText]
               /\ Tail(ui'.history) =
                    SubSeq(ui.history, 1, Min(Len(ui.history), HISTORY_LIMIT - 1))
               /\ ui'.stored = ui'.history]_vars

\* a swap from a token to the native asset has completed successfully after
\* one from the native asset, and the history holds the earlier swap alone
C39_Witness ==
    /\ ui.pc = "idle" /\ ui.txStatus = "Success"
    /\ ui.receipt = [hash |-> 2, status |-> "success"]
    /\ ui.flow.hash = 2 /\ TokenToNative(ui.flow)
    /\ Len(ui.history) = 1
    /\ ui.history[1].txHash = 1 /\ ui.history[1].fromSymbol = "ETH"

---------------------------------------------------------------------------
(* The primary button of the web application *)

\* an account connected, the chain id the testnet's or not yet known, and a
\* quote ready
MaySwap ==
    /\ ui.address # ZERO
    /\ ui.chainId \in {NoChainId, ROBINHOOD_CHAIN_ID}
    /\ ui.quote.status = "ready"

\* a swap flow begins: onSwap has passed its checks
SwapStarted == ui.pc = "idle" /\ ui'.pc \in {"ensuring", "swapAsked"}

\* a wallet connection begins, and nothing else changes
ConnectionStarted == ui.conn = "idle" /\ ui' = [ui EXCEPT !.conn = "accounts"]

===========================================================================
